---- MODULE Spec2Model ----
(***************************************************************************)
(* webmux: a browser-based terminal multiplexer.                           *)
(*                                                                         *)
(* The module models the server (package main) as several state machines   *)
(* that share nothing but the process they run in:                         *)
(*   Spec        the SessionManager: port/name counters, the registry,     *)
(*               CreateSession, CloseSession, handleTtydExit and           *)
(*               monitorSession, with tmux and ttyd as the environment.    *)
(*   SpecStore   the side-channel stores with their event streams: the     *)
(*               marked-files list and the scratch pad. The two stores     *)
(*               share no state and no lock, so the specification          *)
(*               explores each of them on its own (variable store).        *)
(*   SpecUI      the UI state validator: a posted state is validated       *)
(*               and stored (POST), then validated again and served (GET), *)
(*               against a fixed set of live sessions.                     *)
(*   SpecClip    the clipboard with its version, and the page that polls   *)
(*               the version.                                              *)
(*   SpecKeys    key injection: one request to handleSessionKeys, its      *)
(*               decoding and validation, and the send-keys commands that  *)
(*               SendKeys runs for it.                                     *)
(*   SpecFan     the two publishers with two subscribers each and more     *)
(*               events than a channel holds.                              *)
(*   SpecLife    the SessionManager for two calls of CreateSession, with   *)
(*               Cleanup; SpecLive is SpecLife under fair scheduling of    *)
(*               the goroutines.                                           *)
(*   SpecSettings  the settings: POST and GET of /api/settings.            *)
(*   SpecUpload  uploads: requests to /api/upload that choose the names of *)
(*               their files in one directory.                             *)
(*   SpecZip     the names of the entries of a zip download.               *)
(*   SpecUIRace  a POST and a GET of the UI state while sessions close.    *)
(*   SpecProxy   the terminal proxy for plain HTTP: the path sent to ttyd  *)
(*               and the rewriting of its answer.                          *)
(*   SpecWS      the terminal proxy for one WebSocket connection: the      *)
(*               handler, its two copying goroutines and the two peers.    *)
(*   SpecReuse   the steps of SpecLife with room for a third ttyd.         *)
(*   SpecLayout  the UI state validator on groups of up to four sessions.  *)
(*   SpecTheme   the steps of SpecLife next to POSTs of the settings.      *)
(*   SpecRemove  a stored UI state from which closed sessions are removed. *)
(* Each specification leaves the variables of the other parts unchanged.   *)
(***************************************************************************)
EXTENDS Integers, Sequences, FiniteSets, TLC

(***************************************************************************)
(* Bounds of the model and constants of the program.                       *)
(***************************************************************************)
\* main(): NewSessionManager(7700, ...)
StartPort == 7700

\* how many CreateSession calls are made over the life of the daemon
MaxCreates == 3

\* how many ttyd processes are started over the life of the daemon
MaxCmds == 2

\* and in the runs that follow a session id through a reset of the counters
MaxReuseCmds == 3

\* how many CreateSession calls are made in the runs that end with a shutdown
MaxLive == 2

\* how many upload requests are made, and how many parts a request has
MaxUploads == 2
MaxParts == 2

\* the names a client passes to CreateSession ("" asks for a default name)
ReqNames == {"", "dev"}

VARIABLES
    nextPort,      \* SessionManager.nextPort
    nextNameNum,   \* SessionManager.nextNameNum
    sessions,      \* SessionManager.sessions: id -> session object (index into objs)
    objs,          \* the Session objects allocated so far, with the position of
                   \* the CreateSession call that made each of them
    cmds,          \* the ttyd processes started so far, each with its
                   \* handleTtydExit goroutine
    monitor,       \* the monitorSession goroutine of each session object
    tmux,          \* the tmux sessions alive on the daemon's tmux socket
    resets,        \* history: how often resetCounters has run
    begun          \* history: a CreateSession call has begun since the last reset

VARIABLES
    store,         \* which store SpecStore explores: "marked" or "scratch"
    markedFiles,   \* Server.markedFiles: the list of MarkedFile
    markedSubs,    \* Server.markedSubs: the channels of the subscribers
    mpc,           \* handleMarkedEvents: where each subscribing handler stands
    mch,           \* the buffered channel of each subscriber
    mout,          \* the events each handler has written to its client
    mresp,         \* the answer to the last request on /api/marked
    dl             \* handleMarkedDownload: the download that is in progress

markedVars == <<markedFiles, markedSubs, mpc, mch, mout, mresp, dl>>

VARIABLES
    scratchText,   \* Server.scratchText
    scratchSubs,   \* Server.scratchSubs: the channels of the subscribers
    spending,      \* the handleScratch calls between their unlock and their notify
    spc,           \* handleScratchEvents: where each subscribing handler stands
    sch,           \* the buffered channel of each subscriber
    sout,          \* the events each handler has written to its client
    sops           \* history: the scratch requests handled so far

scratchVars == <<scratchText, scratchSubs, spending, spc, sch, sout, sops>>

VARIABLES
    uiLive,        \* the ids ListSessions returns
    uiReq,         \* the state a client posts
    uiState,       \* Server.uiState
    uiResp,        \* the state the last request was answered with
    uipc           \* which requests have been made

uiVars == <<uiLive, uiReq, uiState, uiResp, uipc>>

VARIABLES
    clipText,      \* the clipboard text the server holds
    clipVersion,   \* its version
    clipPosts,     \* history: the successful writes so far
    clipResp,      \* the answer to the last clipboard request
    knownVersion,  \* startClipboardPolling: the version the page knows
    polled,        \* the changed version a poll has seen and not yet fetched, or -1
    browserClip    \* what the page last wrote to the browser's clipboard

clipVars == <<clipText, clipVersion, clipPosts, clipResp, knownVersion, polled, browserClip>>

VARIABLES
    kreq,          \* the key-injection request
    kpc,           \* handleSessionKeys: where the handler stands
    ksteps,        \* SendKeys: the steps still to execute
    ksent,         \* the tmux send-keys commands run so far
    kresp          \* the status the request was answered with, 0 before

keyVars == <<kreq, kpc, ksteps, ksent, kresp>>

VARIABLES
    settings,      \* s.settings: the stored settings, field name -> value
    setReq,        \* the last POST /api/settings: [kind, body], kind "none" before
    setResp,       \* the status it was answered with, 0 before
    setGot         \* the object the last GET /api/settings returned, <<>> before

setVars == <<settings, setReq, setResp, setGot>>

VARIABLES
    upFiles,       \* the upload directory: file name -> what wrote it last
    upReqs         \* the requests to handleUpload, each with its position

upVars == <<upFiles, upReqs>>

VARIABLES
    zfiles,        \* handleMarkedDownload: files, the copy of the marked list
    zk,            \* the position of the loop over files
    zipPath,       \* the candidate name of the file at hand
    fullPath,      \* the path whose parent is taken next
    usedNames,     \* the names given so far
    zipPaths,      \* the names given, in the order of files
    zpc            \* where the computation stands

\* the parts added last, which the specifications above them leave alone
zipVars == <<zfiles, zk, zipPath, fullPath, usedNames, zipPaths, zpc>>

VARIABLES
    uiPost,        \* a POST /api/ui-state: its position, validState, what Encode has read
    uiGet,         \* a GET /api/ui-state: its position and what validateUIState has read
    uiClosing      \* the ids deleted from the registry whose onSessionClosed has not run

raceVars == <<uiPost, uiGet, uiClosing>>

VARIABLES
    pxReq,         \* a request to /t/ and the response of ttyd to it: [path, ctype, body]
    pxUp,          \* the path the director sends to ttyd
    pxResp,        \* the response written to the client: [body, clen]
    pxpc           \* handleTerminalProxy: where the request stands

proxyVars == <<pxReq, pxUp, pxResp, pxpc>>

VARIABLES
    wspc,          \* proxyWebSocket: where the handler stands
    wsC2B,         \* the goroutine client -> backend: where it stands
    wsB2C,         \* the goroutine backend -> client: where it stands
    clientBuf,     \* the bytes buffered in the hijacked reader
    clientOut,     \* the client: [data, eof], what it has written and not been read
    targetOut,     \* ttyd: [data, eof], what it has written and not been read
    targetIn,      \* what ttyd has received
    clientIn,      \* what the client has received
    clientConn,    \* [broken, closeWrite, closed]
    targetConn,    \* [broken, closeWrite, closed]
    wsPlan         \* history: the bytes buffered and the chunks the client sends

wsVars == <<wspc, wsC2B, wsB2C, clientBuf, clientOut, targetOut, targetIn, clientIn,
            clientConn, targetConn, wsPlan>>
VARIABLE
    cmdCap         \* how many ttyd processes are started in this run at most

moreVars == <<upVars, zipVars, raceVars, proxyVars, wsVars, cmdCap>>

sessVars == <<nextPort, nextNameNum, sessions, objs, cmds, monitor, tmux, resets, begun>>

vars == <<sessVars, store, markedVars, scratchVars, uiVars, clipVars, keyVars, setVars, moreVars>>

(***************************************************************************)
(* SessionManager                                                          *)
(***************************************************************************)

\* a slip in the id: formatted from the seed instead of the allocated port
SessionIDFromSeed(port) == "session-" \o ToString(StartPort + 1)

\* CreateSession: id := fmt.Sprintf("session-%d", port)
SessionID(port) == "session-" \o ToString(port)

\* CreateSession: tmuxSession := fmt.Sprintf("mux-%d", port)
TmuxName(port) == "mux-" \o ToString(port)

\* CreateSession: name = fmt.Sprintf("%d", nameNum)
\* a counter that is read before it is incremented
DefaultNameFromZero(nameNum) == ToString(nameNum - 1)

DefaultName(nameNum) == ToString(nameNum)

\* a slip in the allocation: the counter is read but never advanced
AllocPortStuck(counter) == counter

\* atomic.AddInt32(&sm.nextPort, 1): the value the counter gets and returns
AllocPort(counter) == counter + 1

\* delete(sm.sessions, id)
MapDelete(m, id) == [k \in (DOMAIN m) \ {id} |-> m[k]]

\* sm.sessions[id] = session
MapPut(m, id, v) == [k \in (DOMAIN m) \cup {id} |-> IF k = id THEN v ELSE m[k]]

NoSessions == [k \in {} |-> 0]

ObjIds == 1..Len(objs)
CmdIds == 1..Len(cmds)

\* cmd.Process.Kill() on a session's current ttyd (nil when none was started)
KillCmd(cs, c) == IF c = 0 THEN cs ELSE [cs EXCEPT ![c].alive = FALSE]

\* resetCounters, as run by the callers below when len(sm.sessions) == 0
ResetIfEmpty(reg) ==
    IF DOMAIN reg = {}
    THEN /\ nextPort' = StartPort
         /\ nextNameNum' = 0
         /\ resets' = resets + 1
         /\ begun' = FALSE
    ELSE UNCHANGED <<nextPort, nextNameNum, resets, begun>>

\* sm.deleteSession(id); if len(sm.sessions) == 0 { sm.resetCounters() }
DeleteSession(id) ==
    /\ sessions' = MapDelete(sessions, id)
    /\ ResetIfEmpty(sessions')

\* History kept with the object: how its record left the registry ("closed" by
\* CloseSession, "lost" when its tmux session was found gone, "unstarted" when
\* a restart of ttyd failed, "cleanup" by Cleanup), "" while it has not.
Gone(os, j, how) == [os EXCEPT ![j].gone = how]

\* CreateSession, line 455-457: the port is taken from the counter before
\* anything else happens; a non-empty name needs no default name.
\* History kept with the object: reqName (the name asked for), epoch (the
\* number of resets before the call began) and first (the call is the first
\* to begin after a reset).
CreateBegin(name) ==
    /\ Len(objs) < MaxCreates
    /\ nextPort' = AllocPort(nextPort)
    /\ begun' = TRUE
    /\ objs' = Append(objs,
           [ID |-> SessionID(nextPort'), Name |-> name, Port |-> nextPort',
            tmuxSession |-> TmuxName(nextPort'), ttydCmd |-> 0,
            pc |-> IF name = "" THEN "name" ELSE "tmux",
            reqName |-> name, epoch |-> resets,
            first |-> (resets > 0 /\ ~begun), gone |-> "", nameEpoch |-> -1])
    /\ monitor' = Append(monitor, "none")
    /\ UNCHANGED <<nextNameNum, sessions, cmds, tmux, resets>>

\* CreateSession, line 459-462: the default name. History kept with the
\* object: nameEpoch, the number of resets before the name was taken (-1 for
\* a call that takes none).
CreateName(i) ==
    /\ objs[i].pc = "name"
    /\ nextNameNum' = nextNameNum + 1
    /\ objs' = [objs EXCEPT ![i].Name = DefaultName(nextNameNum'), ![i].pc = "tmux",
                             ![i].nameEpoch = resets]
    /\ UNCHANGED <<nextPort, sessions, cmds, monitor, tmux, resets, begun>>

\* CreateSession, line 534-539: tmux new-session -d -s mux-<port>; tmux refuses
\* a session name that is in use, and CreateSession then returns the error.
CreateTmux(i) ==
    /\ objs[i].pc = "tmux"
    /\ IF objs[i].tmuxSession \notin tmux
       THEN /\ tmux' = tmux \cup {objs[i].tmuxSession}
            /\ objs' = [objs EXCEPT ![i].pc = "ttyd"]
       ELSE /\ objs' = [objs EXCEPT ![i].pc = "failed"]
            /\ UNCHANGED tmux
    /\ UNCHANGED <<nextPort, nextNameNum, sessions, cmds, monitor, resets, begun>>

\* startTtyd, line 583-603: the terminal colours of the settings of this
\* moment, in the order of the theme that ttyd gets with -t theme=...
themeJSON(s) ==
    [k \in 1..21 |->
        s[<<"terminal.base00", "terminal.base05", "terminal.base06", "terminal.base00",
            "terminal.base02", "terminal.base03", "terminal.base08", "terminal.base0B",
            "terminal.base0A", "terminal.base0D", "terminal.base0E", "terminal.base0C",
            "terminal.base06", "terminal.base04", "terminal.base12", "terminal.base14",
            "terminal.base13", "terminal.base16", "terminal.base17", "terminal.base15",
            "terminal.base07">>[k]]]

\* startTtyd on success: session.ttydCmd = cmd; go sm.handleTtydExit(session, cmd)
StartTtyd(i) ==
    /\ Len(cmds) < cmdCap
    /\ cmds' = Append(cmds, [obj |-> i, alive |-> TRUE, h |-> "wait", target |-> 0,
                             theme |-> themeJSON(settings)])

\* a slip in the failure path: the tmux session is left behind
CreateTtydLeaky(i) ==
    /\ objs[i].pc = "ttyd"
    /\ \/ /\ StartTtyd(i)
          /\ objs' = [objs EXCEPT ![i].ttydCmd = Len(cmds'), ![i].pc = "register"]
       \/ /\ objs' = [objs EXCEPT ![i].pc = "failed"]
          /\ UNCHANGED cmds
    /\ UNCHANGED <<nextPort, nextNameNum, sessions, monitor, tmux, resets, begun>>

\* CreateSession, line 558-563: startTtyd; on failure kill the tmux session
CreateTtyd(i) ==
    /\ objs[i].pc = "ttyd"
    /\ \/ /\ StartTtyd(i)
          /\ objs' = [objs EXCEPT ![i].ttydCmd = Len(cmds'), ![i].pc = "register"]
          /\ UNCHANGED tmux
       \/ /\ tmux' = tmux \ {objs[i].tmuxSession}
          /\ objs' = [objs EXCEPT ![i].pc = "failed"]
          /\ UNCHANGED cmds
    /\ UNCHANGED <<nextPort, nextNameNum, sessions, monitor, resets, begun>>

\* CreateSession, line 565-574: sm.sessions[id] = session; go sm.monitorSession
CreateRegister(i) ==
    /\ objs[i].pc = "register"
    /\ sessions' = MapPut(sessions, objs[i].ID, i)
    /\ objs' = [objs EXCEPT ![i].pc = "created"]
    /\ monitor' = [monitor EXCEPT ![i] = "loop"]
    /\ UNCHANGED <<nextPort, nextNameNum, cmds, tmux, resets, begun>>

\* CloseSession(id) of a registered id, under sm.mu
CloseSession(id) ==
    /\ id \in DOMAIN sessions
    /\ cmds' = KillCmd(cmds, objs[sessions[id]].ttydCmd)
    /\ tmux' = tmux \ {objs[sessions[id]].tmuxSession}
    /\ DeleteSession(id)
    /\ objs' = Gone(objs, sessions[id], "closed")
    /\ UNCHANGED monitor

\* handleTtydExit, line 657-682: after cmd.Wait(), under sm.mu
HandleTtydExit(c) ==
    /\ cmds[c].h = "wait"
    /\ ~cmds[c].alive
    /\ LET id == objs[cmds[c].obj].ID IN
       IF id \notin DOMAIN sessions
       THEN /\ cmds' = [cmds EXCEPT ![c].h = "done"]
            /\ UNCHANGED <<nextPort, nextNameNum, sessions, objs, resets, begun>>
       ELSE IF objs[cmds[c].obj].tmuxSession \notin tmux
       THEN /\ cmds' = [cmds EXCEPT ![c].h = "done"]
            /\ DeleteSession(id)
            /\ objs' = Gone(objs, sessions[id], "lost")
       ELSE /\ cmds' = [cmds EXCEPT ![c].h = "restart", ![c].target = sessions[id]]
            /\ UNCHANGED <<nextPort, nextNameNum, sessions, objs, resets, begun>>
    /\ UNCHANGED <<monitor, tmux>>

\* handleTtydExit, line 684-693: startTtyd(s) outside the lock; on failure the
\* session is deleted
HandleRestart(c) ==
    /\ cmds[c].h = "restart"
    /\ \/ /\ Len(cmds) < cmdCap
          /\ cmds' = Append([cmds EXCEPT ![c].h = "done", ![c].target = 0],
                 [obj |-> cmds[c].target, alive |-> TRUE, h |-> "wait", target |-> 0,
                  theme |-> themeJSON(settings)])
          /\ objs' = [objs EXCEPT ![cmds[c].target].ttydCmd = Len(cmds')]
          /\ UNCHANGED <<nextPort, nextNameNum, sessions, resets, begun>>
       \/ /\ cmds' = [cmds EXCEPT ![c].h = "done", ![c].target = 0]
          /\ DeleteSession(objs[cmds[c].obj].ID)
          /\ objs' = IF objs[cmds[c].obj].ID \in DOMAIN sessions
                     THEN Gone(objs, sessions[objs[cmds[c].obj].ID], "unstarted")
                     ELSE objs
    /\ UNCHANGED <<monitor, tmux>>

\* monitorSession, line 702-714 and 730-738: one round of the loop. The lookup
\* under the read lock and tmux has-session only read; the goroutine returns
\* when the session is not registered, goes on to the cleanup when the tmux
\* session is gone, and otherwise sleeps and starts the next round.
MonitorCheck(i) ==
    /\ monitor[i] = "loop"
    /\ monitor' = [monitor EXCEPT ![i] =
           IF objs[i].ID \notin DOMAIN sessions THEN "done"
           ELSE IF objs[i].tmuxSession \in tmux THEN "loop" ELSE "cleanup"]
    /\ UNCHANGED <<nextPort, nextNameNum, sessions, objs, cmds, tmux, resets, begun>>

\* monitorSession, line 716-727: the cleanup under sm.mu
MonitorCleanup(i) ==
    /\ monitor[i] = "cleanup"
    /\ monitor' = [monitor EXCEPT ![i] = "done"]
    /\ LET id == objs[i].ID IN
       IF id \in DOMAIN sessions
       THEN /\ cmds' = KillCmd(cmds, objs[sessions[id]].ttydCmd)
            /\ DeleteSession(id)
            /\ objs' = Gone(objs, sessions[id], "lost")
       ELSE /\ UNCHANGED <<cmds, sessions, objs>>
            /\ ResetIfEmpty(sessions)
    /\ UNCHANGED tmux

\* the ttyd processes of the registered sessions
RegisteredCmds == {objs[sessions[id]].ttydCmd : id \in DOMAIN sessions} \ {0}

\* Cleanup, under sm.mu: ttyd and the tmux session of every registered session
\* are killed, the map is replaced by an empty one, and tmux kill-server ends
\* every tmux session on the socket. The counters are left as they are.
Cleanup ==
    /\ cmds' = [c \in CmdIds |->
           IF c \in RegisteredCmds THEN [cmds[c] EXCEPT !.alive = FALSE] ELSE cmds[c]]
    /\ tmux' = {}
    /\ sessions' = NoSessions
    /\ objs' = [i \in ObjIds |->
           IF \E id \in DOMAIN sessions : sessions[id] = i
           THEN [objs[i] EXCEPT !.gone = "cleanup"] ELSE objs[i]]
    /\ UNCHANGED <<nextPort, nextNameNum, monitor, resets, begun>>

\* the environment: a ttyd process exits on its own
TtydExit(c) ==
    /\ cmds[c].alive
    /\ cmds' = [cmds EXCEPT ![c].alive = FALSE]
    /\ UNCHANGED <<nextPort, nextNameNum, sessions, objs, monitor, tmux, resets, begun>>

\* the environment: the shell of a tmux session exits and the session is gone
TmuxExit(n) ==
    /\ n \in tmux
    /\ tmux' = tmux \ {n}
    /\ UNCHANGED <<nextPort, nextNameNum, sessions, objs, cmds, monitor, resets, begun>>

SessInit ==
    /\ nextPort = StartPort
    /\ nextNameNum = 0
    /\ sessions = NoSessions
    /\ objs = <<>>
    /\ cmds = <<>>
    /\ monitor = <<>>
    /\ tmux = {}
    /\ resets = 0
    /\ begun = FALSE

(***************************************************************************)
(* Strings and paths. A string is a sequence of one-character strings, so  *)
(* that prefixes and separators are computed as the code computes them.    *)
(***************************************************************************)
Sep == "/"

\* strings.HasPrefix(s, prefix)
HasPrefix(s, prefix) ==
    /\ Len(prefix) <= Len(s)
    /\ SubSeq(s, 1, Len(prefix)) = prefix

\* filepath.Clean on the paths of the model (no "." or ".." elements): runs of
\* separators collapse, a trailing separator goes unless the path is the root,
\* and the empty path becomes ".".
RECURSIVE Squeeze(_)
Squeeze(p) ==
    IF Len(p) <= 1 THEN p
    ELSE IF p[1] = Sep /\ p[2] = Sep THEN Squeeze(Tail(p))
    ELSE <<p[1]>> \o Squeeze(Tail(p))

Clean(p) ==
    LET q == Squeeze(p) IN
    IF q = <<>> THEN <<".">>
    ELSE IF Len(q) > 1 /\ q[Len(q)] = Sep THEN SubSeq(q, 1, Len(q) - 1)
    ELSE q

\* filepath.Base of a cleaned path: the last element; the root is its own base
RECURSIVE Base(_)
Base(p) ==
    IF p = <<Sep>> \/ p = <<>> THEN p
    ELSE IF p[Len(p)] = Sep THEN <<>>
    ELSE LET b == Base(SubSeq(p, 1, Len(p) - 1))
         IN  (IF b = <<Sep>> THEN <<>> ELSE b) \o <<p[Len(p)]>>

\* The file system the requests see (os.Stat): directories /, /a and files
\* /a/f, /ab. It does not change while the model runs.
FSDirs == { <<"/">>, <<"/", "a">> }
FSFiles == { <<"/", "a", "/", "f">>, <<"/", "a", "b">> }

StatOK(p) == p \in FSDirs \cup FSFiles
StatIsDir(p) == p \in FSDirs

\* paths a client sends: the entries of the file system, a path that is not
\* clean and a path that does not exist
ReqPaths == FSDirs \cup FSFiles \cup { <<"/", "a", "/">>, <<"/", "x">> }

(***************************************************************************)
(* Marked files: handleMarked, handleMarkedEvents, handleMarkedDownload     *)
(***************************************************************************)
\* make(chan string, 10) in handleScratchEvents and handleMarkedEvents
ChanCap == 10

\* how many clients subscribe to an event stream over the life of the model
MaxSubs == 1

\* how many events a handler writes to its client before the client stops reading
MaxOut == 2

Subs == 1..MaxSubs

\* a publisher that puts the message into a channel whether or not it has room
PublishAll(ch, subs, msg) ==
    [i \in DOMAIN ch |-> IF i \in subs THEN Append(ch[i], msg) ELSE ch[i]]

\* select { case ch <- msg: default: } for every channel of the subscriber set
Publish(ch, subs, msg) ==
    [i \in DOMAIN ch |->
        IF i \in subs /\ Len(ch[i]) < ChanCap THEN Append(ch[i], msg) ELSE ch[i]]

\* notifyMarkedSubscribers
NotifyMarked == mch' = Publish(mch, markedSubs, "update")

\* the list without the entries whose path is in paths (the filter loops of
\* DELETE and of the two downloads)
RECURSIVE Without(_, _)
Without(files, paths) ==
    IF files = <<>> THEN <<>>
    ELSE IF files[1].Path \in paths THEN Without(Tail(files), paths)
    ELSE <<files[1]>> \o Without(Tail(files), paths)

MarkedPaths == {markedFiles[k].Path : k \in DOMAIN markedFiles}

\* POST: "can't mark if a parent is already marked" (line 2204-2211)
ParentMarked(filePath) ==
    \E k \in DOMAIN markedFiles :
        markedFiles[k].IsDir /\ HasPrefix(filePath, markedFiles[k].Path \o <<Sep>>)

\* POST: "can't mark directory if any children are already marked" (line 2213-2222)
ChildMarked(filePath) ==
    /\ StatIsDir(filePath)
    /\ \E k \in DOMAIN markedFiles :
           HasPrefix(markedFiles[k].Path, filePath \o <<Sep>>)

\* s.markedMu is held for ever by a download that panicked between its Lock
\* and its Unlock (line 2375-2383, which has no defer)
markedMuHeld == dl.pc = "panic"

\* handleMarked, POST {path}
MarkedPost(path) ==
    LET filePath == Clean(path) IN
    /\ store = "marked"
    /\ ~markedMuHeld \/ ~StatOK(filePath)
    /\ IF ~StatOK(filePath)
       THEN /\ mresp' = [status |-> 404, added |-> FALSE]
            /\ UNCHANGED <<markedFiles, mch>>
       ELSE IF filePath \in MarkedPaths
       THEN /\ mresp' = [status |-> 200, added |-> FALSE]
            /\ UNCHANGED <<markedFiles, mch>>
       ELSE IF ParentMarked(filePath) \/ ChildMarked(filePath)
       THEN /\ mresp' = [status |-> 409, added |-> FALSE]
            /\ UNCHANGED <<markedFiles, mch>>
       ELSE /\ markedFiles' = Append(markedFiles,
                  [Path |-> filePath, Name |-> Base(filePath),
                   IsDir |-> StatIsDir(filePath)])
            /\ NotifyMarked
            /\ mresp' = [status |-> 200, added |-> TRUE]
    /\ UNCHANGED <<markedSubs, mpc, mout, dl>>

\* handleMarked, DELETE ?path=...
MarkedDelete(path) ==
    /\ store = "marked"
    /\ ~markedMuHeld
    /\ markedFiles' = Without(markedFiles, {Clean(path)})
    /\ NotifyMarked
    /\ mresp' = [status |-> 200, added |-> FALSE]
    /\ UNCHANGED <<markedSubs, mpc, mout, dl>>

\* handleMarked, DELETE without a path: clear all
MarkedClear ==
    /\ store = "marked"
    /\ ~markedMuHeld
    /\ markedFiles' = <<>>
    /\ NotifyMarked
    /\ mresp' = [status |-> 200, added |-> FALSE]
    /\ UNCHANGED <<markedSubs, mpc, mout, dl>>

\* no download under way. History kept with the download: failed, the paths of
\* the last download that could not be served or added to the zip.
NoDownload == [pc |-> "idle", files |-> <<>>, failed |-> {}]

\* the entry with the given path (the loop of line 2349-2354), or none
RECURSIVE FindMarked(_, _)
FindMarked(files, path) ==
    IF files = <<>> THEN <<>>
    ELSE IF files[1].Path = path THEN <<files[1]>>
    ELSE FindMarked(Tail(files), path)

\* handleMarkedDownload, line 2339-2368: select the files under the read lock;
\* path "" selects the whole list
DownloadSelect(path) ==
    /\ store = "marked"
    /\ dl.pc = "idle"
    /\ LET files == IF path = <<>> THEN markedFiles
                    ELSE FindMarked(markedFiles, Clean(path)) IN
       IF files = <<>>
       THEN /\ mresp' = [status |-> IF path = <<>> THEN 400 ELSE 404,
                         added |-> FALSE]
            /\ UNCHANGED dl
       ELSE /\ dl' = [pc |-> IF Len(files) = 1 /\ ~files[1].IsDir
                             THEN "single" ELSE "zip",
                      files |-> files, failed |-> {}]
            /\ UNCHANGED mresp
    /\ UNCHANGED <<markedFiles, markedSubs, mpc, mch, mout>>

\* handleMarkedDownload, line 2376: the capacity of
\* make([]MarkedFile, 0, len(s.markedFiles)-1)
DownloadCapacity == Len(markedFiles) - 1

\* handleMarkedDownload, line 2370-2391: a single regular file is taken off the
\* list and then served by http.ServeFile, which answers 404 when the file
\* cannot be opened. make panics on a negative capacity: the goroutine of the
\* request ends there, with s.markedMu locked and nothing written.
DownloadSingle ==
    /\ store = "marked"
    /\ dl.pc = "single"
    /\ IF DownloadCapacity < 0
       THEN /\ dl' = [dl EXCEPT !.pc = "panic"]
            /\ UNCHANGED <<markedFiles, mch, mresp>>
       ELSE /\ markedFiles' = Without(markedFiles, {dl.files[1].Path})
            /\ NotifyMarked
            /\ \E served \in BOOLEAN :
                 /\ dl' = [NoDownload EXCEPT
                               !.failed = IF served THEN {} ELSE {dl.files[1].Path}]
                 /\ mresp' = [status |-> IF served THEN 200 ELSE 404, added |-> FALSE]
    /\ UNCHANGED <<markedSubs, mpc, mout>>

\* handleMarkedDownload, line 2525-2554: the entries are streamed into the zip
\* and then the entries in addedPaths are taken off the list. Adding an entry
\* can fail (the file or directory is gone or unreadable, the client went
\* away). addFileToZip returns the error and the file is left out of
\* addedPaths; addDirToZip returns nil whatever the walk met, so a directory
\* is always entered in addedPaths.
DownloadZip ==
    /\ store = "marked"
    /\ dl.pc = "zip"
    /\ \E failed \in SUBSET {dl.files[k].Path : k \in DOMAIN dl.files} :
         LET addedPaths ==
                 {dl.files[k].Path : k \in {j \in DOMAIN dl.files :
                                               \/ dl.files[j].IsDir
                                               \/ dl.files[j].Path \notin failed}}
         IN /\ markedFiles' = Without(markedFiles, addedPaths)
            /\ dl' = [NoDownload EXCEPT !.failed = failed]
    /\ NotifyMarked
    /\ mresp' = [status |-> 200, added |-> FALSE]
    /\ UNCHANGED <<markedSubs, mpc, mout>>

\* handleMarkedEvents, line 2277-2281: make the channel and enter it in the set
MarkedSubscribe(i) ==
    /\ store = "marked"
    /\ mpc[i] = "idle"
    /\ mpc' = [mpc EXCEPT ![i] = "subscribed"]
    /\ markedSubs' = markedSubs \cup {i}
    /\ UNCHANGED <<markedFiles, mch, mout, mresp, dl>>

\* handleMarkedEvents, line 2290-2297: the init event with the current list
MarkedSendInit(i) ==
    /\ store = "marked"
    /\ ~markedMuHeld
    /\ mpc[i] = "subscribed"
    /\ mpc' = [mpc EXCEPT ![i] = "stream"]
    /\ mout' = [mout EXCEPT ![i] = Append(@, "init")]
    /\ UNCHANGED <<markedFiles, markedSubs, mch, mresp, dl>>

\* handleMarkedEvents, line 2300-2311: a message taken from the channel is
\* written to the client as an update event
MarkedStream(i) ==
    /\ store = "marked"
    /\ ~markedMuHeld
    /\ mpc[i] = "stream"
    /\ mch[i] # <<>>
    /\ Len(mout[i]) < MaxOut
    /\ mch' = [mch EXCEPT ![i] = Tail(@)]
    /\ mout' = [mout EXCEPT ![i] = Append(@, "update")]
    /\ UNCHANGED <<markedFiles, markedSubs, mpc, mresp, dl>>

\* handleMarkedEvents, line 2312-2313 and 2283-2286: the client is gone; the
\* deferred function takes the channel out of the set
MarkedUnsubscribe(i) ==
    /\ store = "marked"
    /\ mpc[i] = "stream"
    /\ mpc' = [mpc EXCEPT ![i] = "removed"]
    /\ markedSubs' = markedSubs \ {i}
    /\ UNCHANGED <<markedFiles, mch, mout, mresp, dl>>

\* handleMarkedEvents, line 2287: close(ch)
MarkedClose(i) ==
    /\ store = "marked"
    /\ mpc[i] = "removed"
    /\ mpc' = [mpc EXCEPT ![i] = "closed"]
    /\ UNCHANGED <<markedFiles, markedSubs, mch, mout, mresp, dl>>

MarkedInit ==
    /\ markedFiles = <<>>
    /\ markedSubs = {}
    /\ mpc = [i \in Subs |-> "idle"]
    /\ mch = [i \in Subs |-> <<>>]
    /\ mout = [i \in Subs |-> <<>>]
    /\ mresp = [status |-> 0, added |-> FALSE]
    /\ dl = NoDownload

(***************************************************************************)
(* Scratch pad: handleScratch, handleScratchEvents                         *)
(***************************************************************************)
\* how many requests that publish an event the scratch pad handles over the
\* life of the model
MaxScratchOps == 3

\* the same, and the number of subscribers, where the channels are filled
MaxFanOps == 11
MaxFanSubs == 2
FanSubs == 1..MaxFanSubs

\* the texts a client posts
ScratchTexts == { <<>>, <<"a">>, <<"b">> }

\* the message prefixes of handleScratch: "text:", "toggle:", "clear:"
TextMsg(text) == <<"t", "e", "x", "t", ":">> \o text
ToggleMsg(text) == <<"t", "o", "g", "g", "l", "e", ":">> \o text
ClearMsg == <<"c", "l", "e", "a", "r", ":">>

\* strings.Index(msg, ":"), counted from 1; 0 when there is none
RECURSIVE IndexColon(_)
IndexColon(msg) ==
    IF msg = <<>> THEN 0
    ELSE IF msg[1] = ":" THEN 1
    ELSE LET r == IndexColon(Tail(msg)) IN IF r = 0 THEN 0 ELSE r + 1

\* a stream loop that labels whatever it forwards as an init event
ParseEventAsInit(msg) == [type |-> <<"i", "n", "i", "t">>, text |-> msg]

\* handleScratchEvents, line 1231-1240: "type:content" becomes an event
ParseEvent(msg) ==
    LET idx == IndexColon(msg) IN
    IF idx # 0
    THEN [type |-> SubSeq(msg, 1, idx - 1), text |-> SubSeq(msg, idx + 1, Len(msg))]
    ELSE [type |-> <<"t", "e", "x", "t">>, text |-> msg]

InitEvent(text) == [type |-> <<"i", "n", "i", "t">>, text |-> text]

\* a handler of handleScratch that has done its part under scratchMu and has
\* its message still to publish
Pending(msg) == [n |-> sops + 1, msg |-> msg]

\* handleScratch, POST {text}: line 1164-1166
ScratchPost(text) ==
    /\ store = "scratch"
    /\ scratchText' = text
    /\ spending' = spending \cup {Pending(TextMsg(text))}
    /\ sops' = sops + 1
    /\ UNCHANGED <<scratchSubs, spc, sch, sout>>

\* handleScratch, POST {toggle: "true"}: line 1153-1156
ScratchToggle ==
    /\ store = "scratch"
    /\ spending' = spending \cup {Pending(ToggleMsg(scratchText))}
    /\ sops' = sops + 1
    /\ UNCHANGED <<scratchText, scratchSubs, spc, sch, sout>>

\* handleScratch, DELETE: line 1175-1177
ScratchDelete ==
    /\ store = "scratch"
    /\ scratchText' = <<>>
    /\ spending' = spending \cup {Pending(ClearMsg)}
    /\ sops' = sops + 1
    /\ UNCHANGED <<scratchSubs, spc, sch, sout>>

\* notifyScratchSubscribers, called by the handler after it released scratchMu
ScratchNotify(r) ==
    /\ store = "scratch"
    /\ r \in spending
    /\ sch' = Publish(sch, scratchSubs, r.msg)
    /\ spending' = spending \ {r}
    /\ UNCHANGED <<scratchText, scratchSubs, spc, sout, sops>>

\* handleScratchEvents, line 1202-1206: make the channel and enter it in the set
ScratchSubscribe(i) ==
    /\ store = "scratch"
    /\ spc[i] = "idle"
    /\ spc' = [spc EXCEPT ![i] = "subscribed"]
    /\ scratchSubs' = scratchSubs \cup {i}
    /\ UNCHANGED <<scratchText, spending, sch, sout, sops>>

\* handleScratchEvents, line 1215-1222: the init event with the current text
ScratchSendInit(i) ==
    /\ store = "scratch"
    /\ spc[i] = "subscribed"
    /\ spc' = [spc EXCEPT ![i] = "stream"]
    /\ sout' = [sout EXCEPT ![i] = Append(@, InitEvent(scratchText))]
    /\ UNCHANGED <<scratchText, scratchSubs, spending, sch, sops>>

\* handleScratchEvents, line 1225-1242: a message taken from the channel is
\* parsed and written to the client
ScratchStream(i) ==
    /\ store = "scratch"
    /\ spc[i] = "stream"
    /\ sch[i] # <<>>
    /\ Len(sout[i]) < MaxOut
    /\ sch' = [sch EXCEPT ![i] = Tail(@)]
    /\ sout' = [sout EXCEPT ![i] = Append(@, ParseEvent(Head(sch[i])))]
    /\ UNCHANGED <<scratchText, scratchSubs, spending, spc, sops>>

\* a slip in the deferred function: the channel stays in the set
ScratchUnsubscribeKeeps(i) ==
    /\ store = "scratch"
    /\ spc[i] = "stream"
    /\ spc' = [spc EXCEPT ![i] = "removed"]
    /\ UNCHANGED <<scratchText, scratchSubs, spending, sch, sout, sops>>

\* handleScratchEvents, line 1243-1244 and 1208-1211: the client is gone; the
\* deferred function takes the channel out of the set
ScratchUnsubscribe(i) ==
    /\ store = "scratch"
    /\ spc[i] = "stream"
    /\ spc' = [spc EXCEPT ![i] = "removed"]
    /\ scratchSubs' = scratchSubs \ {i}
    /\ UNCHANGED <<scratchText, spending, sch, sout, sops>>

\* handleScratchEvents, line 1212: close(ch)
ScratchClose(i) ==
    /\ store = "scratch"
    /\ spc[i] = "removed"
    /\ spc' = [spc EXCEPT ![i] = "closed"]
    /\ UNCHANGED <<scratchText, scratchSubs, spending, sch, sout, sops>>

ScratchInit ==
    /\ scratchText = <<>>
    /\ scratchSubs = {}
    /\ spending = {}
    /\ spc = [i \in Subs |-> "idle"]
    /\ sch = [i \in Subs |-> <<>>]
    /\ sout = [i \in Subs |-> <<>>]
    /\ sops = 0

(***************************************************************************)
(* UI state: handleUIState, validateUIState                                *)
(***************************************************************************)
\* the longest list of groups and the longest group order a client posts
MaxGroups == 2
MaxOrder == 2

\* Sequences over S of length at most n
SeqUpTo(S, n) == UNION {[1..m -> S] : m \in 0..n}

Range(seq) == {seq[k] : k \in DOMAIN seq}

\* the session ids and group ids a posted state may name
UISessionIDs == {"s1", "s2"}
UIGroupIDs == {"g1", "g2"}

\* Layout metadata of a posted group. A split ratio is written in tenths and a
\* nil slice as the empty sequence.
UILayouts ==
    { [Layout |-> "vertical", ExpandedQuadrant |-> "top",
       SplitRatio |-> <<3>>, CellMapping |-> <<1, 0>>],
      [Layout |-> "single", ExpandedQuadrant |-> "",
       SplitRatio |-> <<>>, CellMapping |-> <<>>] }

UIGroups ==
    { [ID |-> id, Name |-> "n", SessionIDs |-> sids, Layout |-> l.Layout,
       ExpandedQuadrant |-> l.ExpandedQuadrant, SplitRatio |-> l.SplitRatio,
       CellMapping |-> l.CellMapping] :
        id \in UIGroupIDs,
        sids \in {<<>>, <<"s1">>, <<"s2">>, <<"s1", "s2">>},
        l \in UILayouts }

\* the states a client posts
UIInputs ==
    { [Groups |-> gs, GroupOrder |-> ord, ActiveGroupID |-> act,
       GroupCounter |-> 5, SidebarCollapsed |-> sb, CustomNames |-> cn] :
        gs \in SeqUpTo(UIGroups, MaxGroups),
        ord \in SeqUpTo(UIGroupIDs \cup {"g9"}, MaxOrder),
        act \in {"", "g1", "g9"},
        sb \in BOOLEAN,
        cn \in {<<>>, <<"s1">>, <<"s2", "s1">>} }

\* NewServer, line 1095-1098
EmptyUIState ==
    [Groups |-> <<>>, GroupOrder |-> <<>>, ActiveGroupID |-> "",
     GroupCounter |-> 0, SidebarCollapsed |-> FALSE, CustomNames |-> <<>>]

\* a table of layouts that is off by one: two sessions get the grid
getDefaultLayoutGridFromTwo(count) == IF count = 1 THEN "single" ELSE "grid"

getDefaultLayout(count) ==
    IF count = 1 THEN "single" ELSE IF count = 2 THEN "horizontal" ELSE "grid"

getDefaultSplitRatio(count) ==
    IF count = 1 THEN <<>> ELSE IF count = 2 THEN <<5>> ELSE <<5, 5>>

\* the filter loops of validateUIState: the entries of seq that are in keep,
\* in their order
RECURSIVE FilterIn(_, _)
FilterIn(seq, keep) ==
    IF seq = <<>> THEN <<>>
    ELSE IF seq[1] \in keep THEN <<seq[1]>> \o FilterIn(Tail(seq), keep)
    ELSE FilterIn(Tail(seq), keep)

\* validateUIState, line 1366-1382: the group kept with its valid sessions
newGroup(group, validSessionIDsInGroup) ==
    IF Len(validSessionIDsInGroup) # Len(group.SessionIDs)
    THEN [group EXCEPT !.SessionIDs = validSessionIDsInGroup,
                       !.Layout = getDefaultLayout(Len(validSessionIDsInGroup)),
                       !.SplitRatio = getDefaultSplitRatio(Len(validSessionIDsInGroup)),
                       !.CellMapping = <<>>]
    ELSE [group EXCEPT !.SessionIDs = validSessionIDsInGroup]

\* validateUIState, line 1357-1386
RECURSIVE validGroups(_, _)
validGroups(groups, validSessionIDs) ==
    IF groups = <<>> THEN <<>>
    ELSE LET inGroup == FilterIn(groups[1].SessionIDs, validSessionIDs)
             rest == validGroups(Tail(groups), validSessionIDs)
         IN IF Len(inGroup) > 0 THEN <<newGroup(groups[1], inGroup)>> \o rest
            ELSE rest

\* an "add any groups" loop that appends every group's id
RECURSIVE AddAll(_, _)
AddAll(order, groups) ==
    IF groups = <<>> THEN order
    ELSE AddAll(Append(order, groups[1].ID), Tail(groups))

\* validateUIState, line 1396-1401: "add any groups not in order"
RECURSIVE AddMissing(_, _)
AddMissing(order, groups) ==
    IF groups = <<>> THEN order
    ELSE IF groups[1].ID \in Range(order) THEN AddMissing(order, Tail(groups))
    ELSE AddMissing(Append(order, groups[1].ID), Tail(groups))

\* validateUIState for a non-nil state, against the ids ListSessions returns
validateUIState(state, validSessionIDs) ==
    LET groups == validGroups(state.Groups, validSessionIDs)
        validGroupIDs == {groups[k].ID : k \in DOMAIN groups}
        validOrder == AddMissing(FilterIn(state.GroupOrder, validGroupIDs), groups)
        validCustomNames == FilterIn(state.CustomNames, validSessionIDs)
        activeGroupID ==
            IF state.ActiveGroupID \notin validGroupIDs /\ Len(validOrder) > 0
            THEN validOrder[1]
            ELSE IF Len(validOrder) = 0 THEN ""
            ELSE state.ActiveGroupID
        groupCounter == IF Len(groups) = 0 THEN 0 ELSE state.GroupCounter
    IN [Groups |-> groups, GroupOrder |-> validOrder,
        ActiveGroupID |-> activeGroupID, GroupCounter |-> groupCounter,
        SidebarCollapsed |-> state.SidebarCollapsed,
        CustomNames |-> validCustomNames]

\* handleUIState, POST: the posted state is validated, stored and returned
UIPost ==
    /\ uipc = "new"
    /\ uiState' = validateUIState(uiReq, uiLive)
    /\ uiResp' = uiState'
    /\ uipc' = "posted"
    /\ UNCHANGED <<uiLive, uiReq>>

\* handleUIState, GET: the stored state is validated and returned, not stored
UIGet ==
    /\ uipc = "posted"
    /\ uiResp' = validateUIState(uiState, uiLive)
    /\ uipc' = "got"
    /\ UNCHANGED <<uiLive, uiReq, uiState>>

\* the server as NewServer leaves it, no request made
UIIdle ==
    /\ uiLive = {}
    /\ uiReq = EmptyUIState
    /\ uiState = EmptyUIState
    /\ uiResp = EmptyUIState
    /\ uipc = "idle"

\* a set of live sessions and a state a client is about to post
UIInit ==
    /\ uiLive \in {{}, {"s1"}, {"s1", "s2"}}
    /\ uiReq \in UIInputs
    /\ uiState = EmptyUIState
    /\ uiResp = EmptyUIState
    /\ uipc = "new"

(***************************************************************************)
(* Clipboard: the /api/clipboard endpoints and the browser's version poll  *)
(***************************************************************************)
\* how many writes the model follows
MaxClipPosts == 3

\* the texts a client writes
ClipTexts == {"x", "y"}

\* a write that bumps the version only when the text changes
NextVersionIfChanged(version, old, new) == IF old = new THEN version ELSE version + 1

\* POST /api/clipboard: "replaces, increments version"
NextVersion(version, old, new) == version + 1

\* POST /api/clipboard with a text body, answered 204
ClipPost(text) ==
    /\ clipPosts < MaxClipPosts
    /\ clipVersion' = NextVersion(clipVersion, clipText, text)
    /\ clipText' = text
    /\ clipPosts' = clipPosts + 1
    /\ clipResp' = [status |-> 204, body |-> ""]
    /\ UNCHANGED <<knownVersion, polled, browserClip>>

\* POST /api/clipboard whose body cannot be read: nothing is written
ClipPostFail ==
    /\ clipResp' = [status |-> 400, body |-> ""]
    /\ UNCHANGED <<clipText, clipVersion, clipPosts, knownVersion, polled, browserClip>>

\* GET /api/clipboard
ClipGet ==
    /\ clipResp' = [status |-> 200, body |-> clipText]
    /\ UNCHANGED <<clipText, clipVersion, clipPosts, knownVersion, polled, browserClip>>

\* GET /api/clipboard/version: the version as a decimal integer
ClipGetVersion ==
    /\ clipResp' = [status |-> 200, body |-> ToString(clipVersion)]
    /\ UNCHANGED <<clipText, clipVersion, clipPosts, knownVersion, polled, browserClip>>

\* startClipboardPolling, poll: the version is fetched and compared with the
\* known one; the first poll only records it
PollVersion ==
    /\ polled = -1
    /\ IF clipVersion # knownVersion
       THEN IF knownVersion # -1
            THEN polled' = clipVersion /\ UNCHANGED knownVersion
            ELSE knownVersion' = clipVersion /\ UNCHANGED polled
       ELSE UNCHANGED <<knownVersion, polled>>
    /\ clipResp' = [status |-> 200, body |-> ToString(clipVersion)]
    /\ UNCHANGED <<clipText, clipVersion, clipPosts, browserClip>>

\* startClipboardPolling, poll: the version changed, so the text is fetched and
\* written to the browser's clipboard
PollFetch ==
    /\ polled # -1
    /\ browserClip' = clipText
    /\ knownVersion' = polled
    /\ polled' = -1
    /\ clipResp' = [status |-> 200, body |-> clipText]
    /\ UNCHANGED <<clipText, clipVersion, clipPosts>>

\* empty and version 0 at startup; the page has not polled yet
ClipInit ==
    /\ clipText = ""
    /\ clipVersion = 0
    /\ clipPosts = 0
    /\ clipResp = [status |-> 0, body |-> ""]
    /\ knownVersion = -1
    /\ polled = -1
    /\ browserClip = ""

(***************************************************************************)
(* Key injection: handleSessionKeys, SendKeys, isValidKeyName              *)
(***************************************************************************)
maxKeysPerRequest == 100
maxKeyNameLength == 32
maxTextStepLength == 4096
maxTotalTextLength == 16384
maxKeysRequestSize == 32768

\* the longest list of steps a request is built from, the long runs apart
MaxSteps == 2

\* A string is written as its leading characters and the number of "x" bytes
\* that follow them, so that a text of 4096 bytes is one small value.
Str(chars) == [chars |-> chars, fill |-> 0]
Fill(n) == [chars |-> <<>>, fill |-> n]
StrLen(s) == Len(s.chars) + s.fill
StrChars(s) == Range(s.chars) \cup (IF s.fill > 0 THEN {"x"} ELSE {})
Run(c, n) == Str([k \in 1..n |-> c])

validTmuxKeyNames ==
    { <<"C", "-", "a">>, <<"C", "-", "b">>, <<"C", "-", "c">>, <<"C", "-", "d">>,
      <<"C", "-", "e">>, <<"C", "-", "f">>, <<"C", "-", "g">>, <<"C", "-", "h">>,
      <<"C", "-", "i">>, <<"C", "-", "j">>, <<"C", "-", "k">>, <<"C", "-", "l">>,
      <<"C", "-", "m">>, <<"C", "-", "n">>, <<"C", "-", "o">>, <<"C", "-", "p">>,
      <<"C", "-", "q">>, <<"C", "-", "r">>, <<"C", "-", "s">>, <<"C", "-", "t">>,
      <<"C", "-", "u">>, <<"C", "-", "v">>, <<"C", "-", "w">>, <<"C", "-", "x">>,
      <<"C", "-", "y">>, <<"C", "-", "z">>, <<"C", "-", "\\">>, <<"C", "-", "]">>,
      <<"C", "-", "^">>, <<"C", "-", "_">>, <<"C", "-", "@">>, <<"C", "-", "[">>,
      <<"E", "n", "t", "e", "r">>, <<"T", "a", "b">>, <<"B", "T", "a", "b">>,
      <<"S", "p", "a", "c", "e">>, <<"B", "S", "p", "a", "c", "e">>,
      <<"E", "s", "c", "a", "p", "e">>, <<"D", "C">>, <<"I", "C">>, <<"U", "p">>,
      <<"D", "o", "w", "n">>, <<"L", "e", "f", "t">>, <<"R", "i", "g", "h", "t">>,
      <<"H", "o", "m", "e">>, <<"E", "n", "d">>, <<"P", "P", "a", "g", "e">>,
      <<"N", "P", "a", "g", "e">>, <<"F", "1">>, <<"F", "2">>, <<"F", "3">>, <<"F", "4">>,
      <<"F", "5">>, <<"F", "6">>, <<"F", "7">>, <<"F", "8">>, <<"F", "9">>,
      <<"F", "1", "0">>, <<"F", "1", "1">>, <<"F", "1", "2">>, <<"M", "-", "a">>,
      <<"M", "-", "b">>, <<"M", "-", "c">>, <<"M", "-", "d">>, <<"M", "-", "e">>,
      <<"M", "-", "f">>, <<"M", "-", "g">>, <<"M", "-", "h">>, <<"M", "-", "i">>,
      <<"M", "-", "j">>, <<"M", "-", "k">>, <<"M", "-", "l">>, <<"M", "-", "m">>,
      <<"M", "-", "n">>, <<"M", "-", "o">>, <<"M", "-", "p">>, <<"M", "-", "q">>,
      <<"M", "-", "r">>, <<"M", "-", "s">>, <<"M", "-", "t">>, <<"M", "-", "u">>,
      <<"M", "-", "v">>, <<"M", "-", "w">>, <<"M", "-", "x">>, <<"M", "-", "y">>,
      <<"M", "-", "z">> }

\* the bytes 0x20 to 0x7E, the backquote (0x60) apart, which no request of
\* the model uses
PrintableASCII ==
    { " ", "!", "\"", "#", "$", "%", "&", "'", "(", ")", "*", "+", ",", "-", ".", "/", "0",
      "1", "2", "3", "4", "5", "6", "7", "8", "9", ":", ";", "<", "=", ">", "?", "@", "A",
      "B", "C", "D", "E", "F", "G", "H", "I", "J", "K", "L", "M", "N", "O", "P", "Q", "R",
      "S", "T", "U", "V", "W", "X", "Y", "Z", "[", "\\", "]", "^", "_", "a", "b", "c",
      "d", "e", "f", "g", "h", "i", "j", "k", "l", "m", "n", "o", "p", "q", "r", "s", "t",
      "u", "v", "w", "x", "y", "z", "{", "|", "}", "~" }

\* the characters the pattern loop of isValidKeyName lets through
PatternChars ==
    { "a", "b", "c", "d", "e", "f", "g", "h", "i", "j", "k", "l", "m", "n", "o", "p", "q",
      "r", "s", "t", "u", "v", "w", "x", "y", "z", "A", "B", "C", "D", "E", "F", "G", "H",
      "I", "J", "K", "L", "M", "N", "O", "P", "Q", "R", "S", "T", "U", "V", "W", "X", "Y",
      "Z", "0", "1", "2", "3", "4", "5", "6", "7", "8", "9", "-", "_", "[", "]", "\\", "^",
      "@" }

\* a check of the name that turns away a name of maxKeyNameLength bytes too
isValidKeyNameExclusive(key) ==
    IF StrLen(key) = 0 \/ StrLen(key) >= maxKeyNameLength THEN FALSE
    ELSE IF key.fill = 0 /\ key.chars \in validTmuxKeyNames THEN TRUE
    ELSE IF StrLen(key) = 1 /\ StrChars(key) \subseteq PrintableASCII THEN TRUE
    ELSE StrChars(key) \subseteq PatternChars

isValidKeyName(key) ==
    IF StrLen(key) = 0 \/ StrLen(key) > maxKeyNameLength THEN FALSE
    ELSE IF key.fill = 0 /\ key.chars \in validTmuxKeyNames THEN TRUE
    ELSE IF StrLen(key) = 1 /\ StrChars(key) \subseteq PrintableASCII THEN TRUE
    ELSE StrChars(key) \subseteq PatternChars

\* a step of the extended form
KeyStep(type, value) == [Type |-> type, Value |-> value]

\* the key names a request is built from: a table name, the empty name, names
\* of 32 and 33 bytes, one printable character outside the pattern, a
\* two-character name outside the pattern, and a name that begins with "-"
KeyNames ==
    { Str(<<"E", "n", "t", "e", "r">>), Str(<<>>), Run("a", maxKeyNameLength),
      Run("a", maxKeyNameLength + 1), Str(<<";">>), Str(<<"a", ";">>),
      Str(<<"-", "X">>) }

\* the steps a sequence is built from
KeySteps ==
    {KeyStep("key", k) : k \in KeyNames}
        \cup {KeyStep("text", Fill(n)) : n \in {0, 1, maxTextStepLength, maxTextStepLength + 1}}
        \cup {KeyStep("paste", Str(<<"a">>))}

Repeat(x, n) == [k \in 1..n |-> x]

\* the lists of the "sequence" field: short ones, and runs at the limits of
\* the step count and of the total text length
KeySequences ==
    SeqUpTo(KeySteps, MaxSteps)
        \cup {Repeat(KeyStep("key", Str(<<"E", "n", "t", "e", "r">>)), n) :
                 n \in {maxKeysPerRequest, maxKeysPerRequest + 1}}
        \cup {Repeat(KeyStep("text", Fill(maxTextStepLength)), n) : n \in {4, 5}}
        \cup {Append(Repeat(KeyStep("text", Fill(maxTextStepLength)), 4),
                      KeyStep("text", Fill(1)))}

\* the lists of the "keys" field
KeyLists ==
    SeqUpTo(KeyNames, 1)
        \cup { << Str(<<"-", "X">>), Str(<<"E", "n", "t", "e", "r">>) >>,
               << Str(<<"E", "n", "t", "e", "r">>), Str(<<"a", ";">>) >> }
        \cup {Repeat(Str(<<"E", "n", "t", "e", "r">>), n) :
                 n \in {maxKeysPerRequest, maxKeysPerRequest + 1}}

\* The request: the id in the path as the text before and after the dash, the
\* two fields of KeysRequest, whether the body has a top-level field that
\* KeysRequest lacks, and the bytes of white space before and after the JSON
\* value.
KeyRequests ==
    [ idPrefix : {"session-", "x-"},
      idPort : {StartPort + 1, StartPort + 2},
      Keys : KeyLists,
      Sequence : KeySequences,
      unknown : BOOLEAN,
      lead : {0, maxKeysRequestSize},
      trail : {0, maxKeysRequestSize} ]

Commas(n) == IF n > 1 THEN n - 1 ELSE 0

\* the bytes of "name"
NameBytes(name) == StrLen(name) + 2

\* the bytes of {"type":"T","value":"V"}; a step type here has 3 to 5 bytes
StepBytes(step) ==
    22 + StrLen(step.Value)
       + (IF step.Type = "key" THEN 3 ELSE IF step.Type = "text" THEN 4 ELSE 5)

\* the sums are taken by halves, which keeps the evaluation shallow
RECURSIVE SumNameBytes(_)
SumNameBytes(names) ==
    IF names = <<>> THEN 0
    ELSE IF Len(names) = 1 THEN NameBytes(names[1])
    ELSE SumNameBytes(SubSeq(names, 1, Len(names) \div 2))
             + SumNameBytes(SubSeq(names, Len(names) \div 2 + 1, Len(names)))

RECURSIVE SumStepBytes(_)
SumStepBytes(steps) ==
    IF steps = <<>> THEN 0
    ELSE IF Len(steps) = 1 THEN StepBytes(steps[1])
    ELSE SumStepBytes(SubSeq(steps, 1, Len(steps) \div 2))
             + SumStepBytes(SubSeq(steps, Len(steps) \div 2 + 1, Len(steps)))

\* the bytes of the JSON value of the request, written without white space:
\* {"keys":[...],"sequence":[...],"x":1}
ValueBytes(req) ==
    2 + (IF req.Keys # <<>>
         THEN 9 + SumNameBytes(req.Keys) + Commas(Len(req.Keys)) ELSE 0)
      + (IF req.Sequence # <<>>
         THEN 13 + SumStepBytes(req.Sequence) + Commas(Len(req.Sequence)) ELSE 0)
      + (IF req.unknown THEN 5 ELSE 0)
      + Commas((IF req.Keys # <<>> THEN 1 ELSE 0) + (IF req.Sequence # <<>> THEN 1 ELSE 0)
               + (IF req.unknown THEN 1 ELSE 0))

BodyBytes(req) == req.lead + ValueBytes(req) + req.trail

\* handleSessionKeys, line 1632-1643: json.Decoder.Decode over MaxBytesReader.
\* Decode reads up to the end of the first JSON value and no further, and the
\* reader fails only a read that goes past its limit. 0 stands for no error.
Decode(req) ==
    IF req.lead + ValueBytes(req) > maxKeysRequestSize THEN 413
    ELSE IF req.unknown THEN 400
    ELSE 0

\* a conversion in which the simple form takes precedence
StepsOfKeysFirst(req) ==
    IF Len(req.Keys) > 0 THEN [k \in DOMAIN req.Keys |-> KeyStep("key", req.Keys[k])]
    ELSE req.Sequence

\* SendKeys, line 938-949: the steps of the request, "" when it has none
StepsOf(req) ==
    IF Len(req.Sequence) > 0 THEN req.Sequence
    ELSE [k \in DOMAIN req.Keys |-> KeyStep("key", req.Keys[k])]

\* SendKeys, line 964-973: totalTextLength += len(step.Value) over the text
\* steps of a run of steps
RECURSIVE TextBytes(_)
TextBytes(steps) ==
    IF steps = <<>> THEN 0
    ELSE IF Len(steps) = 1
    THEN IF steps[1].Type = "text" THEN StrLen(steps[1].Value) ELSE 0
    ELSE TextBytes(SubSeq(steps, 1, Len(steps) \div 2))
             + TextBytes(SubSeq(steps, Len(steps) \div 2 + 1, Len(steps)))

\* SendKeys, line 957-976: the checks of step k of the loop, reached with
\* totalTextLength; the error it returns, "" when the step passes
StepError(step, totalTextLength) ==
    IF step.Type = "key"
    THEN IF ~isValidKeyName(step.Value) THEN "invalid key name" ELSE ""
    ELSE IF step.Type = "text"
    THEN IF StrLen(step.Value) > maxTextStepLength THEN "text too long"
         ELSE IF totalTextLength + StrLen(step.Value) > maxTotalTextLength
         THEN "total text length exceeds limit"
         ELSE ""
    ELSE "invalid step type"

\* SendKeys, line 957-976: the validation loop from step k on; the error of
\* the first step that fails, "" when none does. A step is reached with the
\* text length of the steps before it, which all passed.
ValidateFrom(steps, k, totalTextLength) ==
    LET Err(j) == StepError(steps[j],
                      totalTextLength + TextBytes(SubSeq(steps, k, j - 1)))
        failing == {j \in k..Len(steps) : Err(j) # ""}
    IN IF failing = {} THEN ""
       ELSE Err(CHOOSE j \in failing : \A i \in failing : j <= i)

\* SendKeys up to its execution loop: the error it returns, "" when it goes on
\* to execute. The tmux session name of a registered session is "mux-<port>",
\* which passes the format check of line 929.
SendKeysError(id, req) ==
    IF id \notin DOMAIN sessions THEN "session not found"
    ELSE IF Len(req.Sequence) = 0 /\ Len(req.Keys) = 0 THEN "no keys or sequence provided"
    ELSE IF Len(StepsOf(req)) > maxKeysPerRequest THEN "too many steps"
    ELSE ValidateFrom(StepsOf(req), 1, 0)

\* handleSessionKeys, line 1645-1657: the status for an error of SendKeys
ErrorStatus(errMsg) ==
    IF errMsg = "session not found" THEN 404
    ELSE IF errMsg \in {"invalid key name", "invalid step type", "too many steps",
                        "text too long"}
    THEN 400
    ELSE 500

\* handleSessionKeys up to the execution loop of SendKeys
KeysHandle ==
    /\ kpc = "new"
    /\ LET id == kreq.idPrefix \o ToString(kreq.idPort)
           err == SendKeysError(id, kreq)
       IN IF kreq.idPrefix # "session-"
          THEN kresp' = 400 /\ kpc' = "done" /\ UNCHANGED ksteps
          ELSE IF Decode(kreq) # 0
          THEN kresp' = Decode(kreq) /\ kpc' = "done" /\ UNCHANGED ksteps
          ELSE IF err # ""
          THEN kresp' = ErrorStatus(err) /\ kpc' = "done" /\ UNCHANGED ksteps
          ELSE ksteps' = StepsOf(kreq) /\ kpc' = "exec" /\ UNCHANGED kresp
    /\ UNCHANGED <<kreq, ksent>>

\* SendKeys, line 979-1001: the next step; an empty value is skipped, any
\* other is handed to tmux send-keys, with -l for a text
KeysExec ==
    /\ kpc = "exec"
    /\ ksteps # <<>>
    /\ ksteps' = Tail(ksteps)
    /\ IF StrLen(ksteps[1].Value) = 0
       THEN UNCHANGED ksent
       ELSE ksent' = Append(ksent, [literal |-> ksteps[1].Type = "text",
                                    value |-> ksteps[1].Value])
    /\ UNCHANGED <<kreq, kpc, kresp>>

\* a loop that logs the error of tmux send-keys and goes on with the next step
KeysExecFailGoesOn ==
    /\ kpc = "exec"
    /\ ksteps # <<>>
    /\ StrLen(ksteps[1].Value) # 0
    /\ ksteps' = Tail(ksteps)
    /\ UNCHANGED <<kreq, kpc, kresp, ksent>>

\* SendKeys, line 998-1000: tmux send-keys exits with an error, the next step
\* is not reached and the request is answered 500
KeysExecFail ==
    /\ kpc = "exec"
    /\ ksteps # <<>>
    /\ StrLen(ksteps[1].Value) # 0
    /\ kpc' = "done"
    /\ kresp' = 500
    /\ UNCHANGED <<kreq, ksteps, ksent>>

\* handleSessionKeys, line 1658-1660: every step ran
KeysDone ==
    /\ kpc = "exec"
    /\ ksteps = <<>>
    /\ kpc' = "done"
    /\ kresp' = 200
    /\ UNCHANGED <<kreq, ksteps, ksent>>

\* no key request made
KeysIdle ==
    /\ kreq = [idPrefix |-> "", idPort |-> 0, Keys |-> <<>>, Sequence |-> <<>>,
               unknown |-> FALSE, lead |-> 0, trail |-> 0]
    /\ kpc = "idle"
    /\ ksteps = <<>>
    /\ ksent = <<>>
    /\ kresp = 0

\* a request that has arrived
KeysInit ==
    /\ kreq \in KeyRequests
    /\ kpc = "new"
    /\ ksteps = <<>>
    /\ ksent = <<>>
    /\ kresp = 0

(***************************************************************************)
(* Settings: /api/settings                                                 *)
(***************************************************************************)
\* DefaultSettings, line 118-158: the fields of Settings.UI and
\* Settings.Terminal with their default values
DefaultPairs == <<
    <<"ui.bgPrimary", "#1e1e2e">>, <<"ui.bgSecondary", "#181825">>,
    <<"ui.bgTertiary", "#313244">>, <<"ui.textPrimary", "#cdd6f4">>,
    <<"ui.textSecondary", "#a6adc8">>, <<"ui.textMuted", "#6c7086">>,
    <<"ui.accent", "#89b4fa">>, <<"ui.accentHover", "#b4befe">>,
    <<"ui.border", "#45475a">>,
    <<"terminal.base00", "#1e1e2e">>, <<"terminal.base01", "#181825">>,
    <<"terminal.base02", "#313244">>, <<"terminal.base03", "#45475a">>,
    <<"terminal.base04", "#585b70">>, <<"terminal.base05", "#cdd6f4">>,
    <<"terminal.base06", "#f5e0dc">>, <<"terminal.base07", "#ffffff">>,
    <<"terminal.base08", "#f38ba8">>, <<"terminal.base09", "#fab387">>,
    <<"terminal.base0A", "#f9e2af">>, <<"terminal.base0B", "#a6e3a1">>,
    <<"terminal.base0C", "#94e2d5">>, <<"terminal.base0D", "#89b4fa">>,
    <<"terminal.base0E", "#cba6f7">>, <<"terminal.base0F", "#f2cdcd">>,
    <<"terminal.base10", "#11111b">>, <<"terminal.base11", "#0a0a0f">>,
    <<"terminal.base12", "#f38ba8">>, <<"terminal.base13", "#f9e2af">>,
    <<"terminal.base14", "#a6e3a1">>, <<"terminal.base15", "#94e2d5">>,
    <<"terminal.base16", "#89b4fa">>, <<"terminal.base17", "#cba6f7">> >>

FieldNames == {DefaultPairs[k][1] : k \in DOMAIN DefaultPairs}

UIFieldNames == {DefaultPairs[k][1] : k \in 1..9}

DefaultSettings ==
    [f \in FieldNames |->
        DefaultPairs[CHOOSE k \in DOMAIN DefaultPairs : DefaultPairs[k][1] = f][2]]

\* a slip in the merge: only the terminal colours are filled in
mergeTerminalOnly(s) ==
    [f \in FieldNames |->
        IF f \notin UIFieldNames /\ s[f] = "" THEN DefaultSettings[f] ELSE s[f]]

\* mergeWithDefaults: if s.X == "" { s.X = d.X }, for every field X
mergeWithDefaults(s) ==
    [f \in FieldNames |-> IF s[f] = "" THEN DefaultSettings[f] ELSE s[f]]

\* the SessionManager after one CreateSession("dev")
OneSessionInit ==
    /\ nextPort = StartPort + 1
    /\ nextNameNum = 0
    /\ sessions = MapPut(NoSessions, SessionID(StartPort + 1), 1)
    /\ objs = << [ID |-> SessionID(StartPort + 1), Name |-> "dev",
                  Port |-> StartPort + 1, tmuxSession |-> TmuxName(StartPort + 1),
                  ttydCmd |-> 1, pc |-> "created", reqName |-> "dev",
                  epoch |-> 0, first |-> FALSE, gone |-> "", nameEpoch |-> -1] >>
    /\ cmds = << [obj |-> 1, alive |-> TRUE, h |-> "wait", target |-> 0,
                  theme |-> themeJSON(DefaultSettings)] >>
    /\ monitor = <<"loop">>
    /\ tmux = {TmuxName(StartPort + 1)}
    /\ resets = 0
    /\ begun = TRUE

\* the fields a posted body names and the values it gives them; a body is a
\* JSON object that names some of the fields
SettingsBodies ==
    UNION {[S -> {"", "#000000", "#ffffff"}] :
               S \in SUBSET {"ui.bgPrimary", "ui.accent", "terminal.base07"}}

\* json.NewDecoder(r.Body).Decode(&settings) into a zero Settings: a field the
\* body names gets its value, every other field stays ""
DecodeSettings(body) ==
    [f \in FieldNames |-> IF f \in DOMAIN body THEN body[f] ELSE ""]

\* handleSettings, POST, line 1274-1293: decode, merge, store under
\* settingsMu, then SaveSettings; the settings are stored before the save, so
\* a failed save answers 500 with the new settings in place
SettingsPost(body) ==
    /\ settings' = mergeWithDefaults(DecodeSettings(body))
    /\ setReq' = [kind |-> "body", body |-> body]
    /\ \E saved \in BOOLEAN : setResp' = IF saved THEN 200 ELSE 500
    /\ UNCHANGED setGot

\* handleSettings, POST, line 1275-1278: a body that does not decode
SettingsPostInvalid ==
    /\ setReq' = [kind |-> "invalid", body |-> <<>>]
    /\ setResp' = 400
    /\ UNCHANGED <<settings, setGot>>

\* handleSettings, GET, line 1268-1271: every field of s.settings is encoded
SettingsGet ==
    /\ setGot' = [f \in FieldNames |-> settings[f]]
    /\ UNCHANGED <<settings, setReq, setResp>>

\* NewServer: settings loaded by LoadSettings, here with no settings file
SettingsIdle ==
    /\ settings = DefaultSettings
    /\ setReq = [kind |-> "none", body |-> <<>>]
    /\ setResp = 0
    /\ setGot = <<>>

\* LoadSettings, line 194-209: the defaults, or the settings file merged with
\* the defaults
SettingsInit ==
    /\ settings \in {mergeWithDefaults(DecodeSettings(b)) : b \in SettingsBodies}
    /\ setReq = [kind |-> "none", body |-> <<>>]
    /\ setResp = 0
    /\ setGot = <<>>

(***************************************************************************)
(* Uploads: /api/upload                                                    *)
(***************************************************************************)
\* filepath.Ext: the suffix of the name from its last dot on, "" without a dot
Ext(name) ==
    LET dots == {k \in DOMAIN name : name[k] = "."}
    IN IF dots = {} THEN <<>>
       ELSE SubSeq(name, CHOOSE k \in dots : \A j \in dots : j <= k, Len(name))

\* the decimal digits of n, as fmt.Sprintf("%d", n) writes them
RECURSIVE Digits(_)
Digits(n) ==
    IF n < 10 THEN <<ToString(n)>> ELSE Digits(n \div 10) \o <<ToString(n % 10)>>

\* a slip in the format: the number goes after the extension
SuffixedAtEnd(filename, i) == filename \o <<" ", "(">> \o Digits(i) \o <<")">>

\* handleUpload, line 1703-1706: fmt.Sprintf("%s (%d)%s", base, i, ext) with
\* base the file name without its extension
Suffixed(filename, i) ==
    SubSeq(filename, 1, Len(filename) - Len(Ext(filename)))
        \o <<" ", "(">> \o Digits(i) \o <<")">> \o Ext(filename)

\* handleUpload, line 1697-1711: the destination for a file name in a
\* directory with the files dir. os.Stat sees the directory as it is now.
DestPath(filename, dir) ==
    IF filename \notin dir THEN filename
    ELSE Suffixed(filename,
             CHOOSE i \in 1..(Cardinality(dir) + 1) :
                 /\ Suffixed(filename, i) \notin dir
                 /\ \A j \in 1..(i - 1) : Suffixed(filename, j) \in dir)

\* the file names of the parts of a request, and the lists of parts
UploadNames == { <<"a", ".", "t">>, <<"a">>, <<".", ".", "/", "a", ".", "t">> }
UploadLists == SeqUpTo(UploadNames, MaxParts)

\* the directories a run starts with: files written before the daemon ran
UploadDirs ==
    SUBSET { <<"a", ".", "t">>, <<"a", " ", "(", "1", ")", ".", "t">>,
             <<"a", " ", "(", "2", ")", ".", "t">> }

UploadIds == 1..Len(upReqs)

\* handleUpload, line 1690-1691: a request arrives with its parts
UploadBegin(files) ==
    /\ Len(upReqs) < MaxUploads
    /\ upReqs' = Append(upReqs,
           [files |-> files, k |-> 1, dest |-> <<>>, seen |-> {}, uploaded |-> <<>>,
            pc |-> IF files = <<>> THEN "done" ELSE "stat"])
    /\ UNCHANGED upFiles

\* handleUpload, line 1700-1711: the name is reduced to its base and the
\* destination is chosen by os.Stat. History kept with the request: seen, the
\* names in the directory at that moment.
UploadStat(r) ==
    /\ upReqs[r].pc = "stat"
    /\ upReqs' = [upReqs EXCEPT
           ![r].dest = DestPath(Base(upReqs[r].files[upReqs[r].k]), DOMAIN upFiles),
           ![r].seen = DOMAIN upFiles,
           ![r].pc = "create"]
    /\ UNCHANGED upFiles

\* handleUpload, line 1713-1727: os.Create (which truncates a file that
\* exists) and io.Copy, then the next part, or the answer after the last
UploadCreate(r) ==
    /\ upReqs[r].pc = "create"
    /\ upFiles' = MapPut(upFiles, upReqs[r].dest, [req |-> r, part |-> upReqs[r].k])
    /\ upReqs' = [upReqs EXCEPT
           ![r].uploaded = Append(@, upReqs[r].dest),
           ![r].k = @ + 1,
           ![r].pc = IF upReqs[r].k = Len(upReqs[r].files) THEN "done" ELSE "stat"]

\* handleUpload, line 1714-1717: os.Create fails and the request is answered
\* 500; the parts stored before stay
UploadCreateFail(r) ==
    /\ upReqs[r].pc = "create"
    /\ upReqs' = [upReqs EXCEPT ![r].pc = "failed"]
    /\ UNCHANGED upFiles

UploadIdle ==
    /\ upFiles = NoSessions
    /\ upReqs = <<>>

UploadInit ==
    /\ upFiles \in {[n \in dir |-> [req |-> 0, part |-> 0]] : dir \in UploadDirs}
    /\ upReqs = <<>>

(***************************************************************************)
(* The names of the entries of a zip download: handleMarkedDownload        *)
(***************************************************************************)
\* how many marked entries a zip download has
MaxZipFiles == 3

\* filepath.Dir of a cleaned path: the path without its last element, "." for
\* a single relative element, the root for an element of the root
Dir(p) ==
    LET seps == {k \in DOMAIN p : p[k] = Sep}
        last == CHOOSE k \in seps : \A j \in seps : j <= k
    IN IF seps = {} THEN <<".">>
       ELSE IF last = 1 THEN <<Sep>>
       ELSE SubSeq(p, 1, last - 1)

\* filepath.Join of two elements that are not empty
Join(a, b) == Clean(a \o <<Sep>> \o b)

\* line 2505: parent == "/" || parent == "." || parent == fullPath
ParentsExhausted(p) == Dir(p) = <<Sep>> \/ Dir(p) = <<".">> \/ Dir(p) = p

\* a suffix loop that takes its first candidate without looking at usedNames
FirstSuffix(base, used) == Suffixed(base, 2)

\* line 2507-2515: the first of "name (2)ext", "name (3)ext", ... that is not used
FreeSuffix(base, used) ==
    Suffixed(base, CHOOSE i \in 2..(Cardinality(used) + 2) :
                       /\ Suffixed(base, i) \notin used
                       /\ \A j \in 2..(i - 1) : Suffixed(base, j) \in used)

\* the paths that are marked when a download starts: cleaned by handleMarked
\* (line 2173), absolute or relative to the working directory of the daemon
ZipPool ==
    { <<"/", "a">>, <<"a">>, <<"/", "x", "/", "a">>, <<"x", "/", "a">>,
      <<"/", "y", "/", "a">>, <<"/", "a", " ", "(", "2", ")">>,
      <<"a", ".", "t">>, <<"/", "a", ".", "t">> }

\* the marked list: no path twice (line 2196-2203), Name the base of Path
\* (line 2188)
ZipLists ==
    { [k \in DOMAIN l |-> [Path |-> l[k], Name |-> Base(l[k])]] :
        l \in { m \in SeqUpTo(ZipPool, MaxZipFiles) :
                  /\ m # <<>>
                  /\ \A i, j \in DOMAIN m : i # j => m[i] # m[j] } }

\* line 2499-2501: the next file of the list; zipPath starts as its name
ZipTake ==
    /\ zpc = "take"
    /\ zipPath' = zfiles[zk].Name
    /\ fullPath' = zfiles[zk].Path
    /\ zpc' = "loop"
    /\ UNCHANGED <<zfiles, zk, usedNames, zipPaths>>

\* line 2503-2504, 2519-2520: the name is used and there is a parent left;
\* the name of the parent goes in front
ZipPrepend ==
    /\ zpc = "loop"
    /\ zipPath \in usedNames
    /\ ~ParentsExhausted(fullPath)
    /\ zipPath' = Join(Base(Dir(fullPath)), zipPath)
    /\ fullPath' = Dir(fullPath)
    /\ UNCHANGED <<zfiles, zk, usedNames, zipPaths, zpc>>

\* line 2505-2517: the name is used and no parent is left; the name of the
\* file gets a number, and the loop is left
ZipSuffix ==
    /\ zpc = "loop"
    /\ zipPath \in usedNames
    /\ ParentsExhausted(fullPath)
    /\ zipPath' = FreeSuffix(zfiles[zk].Name, usedNames)
    /\ zpc' = "assign"
    /\ UNCHANGED <<zfiles, zk, fullPath, usedNames, zipPaths>>

\* line 2521-2522: the loop is over; the name is entered in usedNames and
\* given to the file
ZipAssign ==
    /\ zpc = "assign" \/ (zpc = "loop" /\ zipPath \notin usedNames)
    /\ usedNames' = usedNames \cup {zipPath}
    /\ zipPaths' = Append(zipPaths, zipPath)
    /\ zk' = zk + 1
    /\ zpc' = IF zk = Len(zfiles) THEN "done" ELSE "take"
    /\ UNCHANGED <<zfiles, zipPath, fullPath>>

ZipIdle ==
    /\ zfiles = <<>>
    /\ zk = 1
    /\ zipPath = <<>>
    /\ fullPath = <<>>
    /\ usedNames = {}
    /\ zipPaths = <<>>
    /\ zpc = "idle"

\* line 2495-2496: the maps are empty before the first file
ZipInit ==
    /\ zfiles \in ZipLists
    /\ zk = 1
    /\ zipPath = <<>>
    /\ fullPath = <<>>
    /\ usedNames = {}
    /\ zipPaths = <<>>
    /\ zpc = "take"

(***************************************************************************)
(* The UI state against sessions that close: handleUIState,                *)
(* removeSessionFromUIState                                                *)
(***************************************************************************)
\* the entries of seq other than x, in their order
RECURSIVE FilterOut(_, _)
FilterOut(seq, x) ==
    IF seq = <<>> THEN <<>>
    ELSE IF seq[1] = x THEN FilterOut(Tail(seq), x)
    ELSE <<seq[1]>> \o FilterOut(Tail(seq), x)

\* removeSessionFromUIState, line 1449-1470: the groups that keep a session,
\* with the layout reset where the count changed
RECURSIVE GroupsWithout(_, _)
GroupsWithout(groups, sessionID) ==
    IF groups = <<>> THEN <<>>
    ELSE LET newSessionIDs == FilterOut(groups[1].SessionIDs, sessionID)
             rest == GroupsWithout(Tail(groups), sessionID)
         IN IF Len(newSessionIDs) > 0
            THEN <<newGroup(groups[1], newSessionIDs)>> \o rest
            ELSE rest

\* removeSessionFromUIState, line 1437-1505, on the state s.uiState points to
removeSessionFromUIState(state, sessionID) ==
    LET newGroups == GroupsWithout(state.Groups, sessionID)
        removedGroupIDs ==
            {state.Groups[k].ID : k \in {j \in DOMAIN state.Groups :
                 FilterOut(state.Groups[j].SessionIDs, sessionID) = <<>>}}
        newOrder == FilterIn(state.GroupOrder, Range(state.GroupOrder) \ removedGroupIDs)
    IN [Groups |-> newGroups,
        GroupOrder |-> newOrder,
        ActiveGroupID |->
            IF state.ActiveGroupID \in removedGroupIDs
            THEN (IF Len(newOrder) > 0 THEN newOrder[1] ELSE "")
            ELSE state.ActiveGroupID,
        GroupCounter |-> IF Len(newGroups) = 0 THEN 0 ELSE state.GroupCounter,
        SidebarCollapsed |-> state.SidebarCollapsed,
        CustomNames |-> FilterOut(state.CustomNames, sessionID)]

\* the fields of UIState in the order json.Encoder writes them (line 1057-1064)
EncodeOrder ==
    <<"Groups", "GroupOrder", "ActiveGroupID", "GroupCounter", "SidebarCollapsed",
      "CustomNames">>

\* and in the order validateUIState reads them (line 1358, 1388, 1403, 1410,
\* 1417, 1427)
ValidateOrder ==
    <<"Groups", "GroupOrder", "CustomNames", "ActiveGroupID", "GroupCounter",
      "SidebarCollapsed">>

\* the states the client posts while s1 and s2 are registered
UIRaceInputs ==
    { [Groups |-> <<[ID |-> "g1", Name |-> "n", SessionIDs |-> <<"s1">>,
                     Layout |-> "single", ExpandedQuadrant |-> "",
                     SplitRatio |-> <<>>, CellMapping |-> <<>>]>>,
       GroupOrder |-> <<"g1">>, ActiveGroupID |-> "g1", GroupCounter |-> 5,
       SidebarCollapsed |-> FALSE, CustomNames |-> <<"s1">>],
      [Groups |-> <<[ID |-> "g1", Name |-> "n", SessionIDs |-> <<"s1", "s2">>,
                     Layout |-> "vertical", ExpandedQuadrant |-> "top",
                     SplitRatio |-> <<3>>, CellMapping |-> <<1, 0>>]>>,
       GroupOrder |-> <<"g1">>, ActiveGroupID |-> "g1", GroupCounter |-> 5,
       SidebarCollapsed |-> TRUE, CustomNames |-> <<"s2", "s1">>],
      [Groups |-> <<[ID |-> "g1", Name |-> "n", SessionIDs |-> <<"s1">>,
                     Layout |-> "single", ExpandedQuadrant |-> "",
                     SplitRatio |-> <<>>, CellMapping |-> <<>>],
                    [ID |-> "g2", Name |-> "n", SessionIDs |-> <<"s2">>,
                     Layout |-> "single", ExpandedQuadrant |-> "",
                     SplitRatio |-> <<>>, CellMapping |-> <<>>]>>,
       GroupOrder |-> <<"g2", "g1">>, ActiveGroupID |-> "g2", GroupCounter |-> 5,
       SidebarCollapsed |-> FALSE, CustomNames |-> <<>>] }

NoUIRequest == [pc |-> "idle", ref |-> "", ids |-> {}, at |-> 1,
                in |-> EmptyUIState, out |-> EmptyUIState]

\* deleteSession, line 820-823: the id leaves the registry and the callback
\* is started in a goroutine of its own
UICloseSession(sid) ==
    /\ sid \in uiLive
    /\ uiLive' = uiLive \ {sid}
    /\ uiClosing' = uiClosing \cup {sid}
    /\ UNCHANGED <<uiReq, uiState, uiResp, uipc, uiPost, uiGet>>

\* onSessionClosed, line 1107-1109: removeSessionFromUIState changes the
\* state s.uiState points to, in place and under uiStateMu
UIRemoveSession(sid) ==
    /\ sid \in uiClosing
    /\ uiClosing' = uiClosing \ {sid}
    /\ uiState' = removeSessionFromUIState(uiState, sid)
    /\ UNCHANGED <<uiLive, uiReq, uiResp, uipc, uiPost, uiGet>>

\* handleUIState POST, line 1315-1322: the body is decoded and validated
\* against the sessions registered now
UIPostValidate ==
    /\ uiPost.pc = "new"
    /\ uiPost' = [uiPost EXCEPT !.pc = "validated", !.ids = uiLive,
                                !.in = validateUIState(uiReq, uiLive)]
    /\ UNCHANGED <<uiLive, uiReq, uiState, uiResp, uipc, uiGet, uiClosing>>

\* line 1324-1326: s.uiState = validState, under uiStateMu
UIPostStore ==
    /\ uiPost.pc = "validated"
    /\ uiState' = uiPost.in
    /\ uiPost' = [uiPost EXCEPT !.pc = "stored"]
    /\ UNCHANGED <<uiLive, uiReq, uiResp, uipc, uiGet, uiClosing>>

\* line 1328-1329: json.NewEncoder(w).Encode(validState), after the unlock;
\* validState is the state s.uiState points to, and Encode reads field after
\* field of it
UIPostEncode ==
    /\ uiPost.pc = "stored"
    /\ LET f == EncodeOrder[uiPost.at] IN
       uiPost' = [uiPost EXCEPT !.out = [@ EXCEPT ![f] = uiState[f]],
                                !.at = @ + 1,
                                !.pc = IF uiPost.at = Len(EncodeOrder) THEN "done" ELSE @]
    /\ UNCHANGED <<uiLive, uiReq, uiState, uiResp, uipc, uiGet, uiClosing>>

\* handleUIState GET, line 1306-1308: state := s.uiState under the read lock.
\* It is the state NewServer made until a POST has stored its own.
UIGetRead ==
    /\ uiGet.pc = "new"
    /\ uiGet' = [uiGet EXCEPT !.pc = "read",
                   !.ref = IF uiPost.pc \in {"stored", "done"} THEN "posted" ELSE "init"]
    /\ UNCHANGED <<uiLive, uiReq, uiState, uiResp, uipc, uiPost, uiClosing>>

\* validateUIState, line 1347-1351: ListSessions
UIGetList ==
    /\ uiGet.pc = "read"
    /\ uiGet' = [uiGet EXCEPT !.pc = "listed", !.ids = uiLive]
    /\ UNCHANGED <<uiLive, uiReq, uiState, uiResp, uipc, uiPost, uiClosing>>

\* what the pointer a GET holds points to: the state of NewServer, which has
\* nothing a removal could change, or the state the POST stored
UIPointee(ref) ==
    IF ref = "posted" /\ uiPost.pc \in {"stored", "done"} THEN uiState ELSE EmptyUIState

\* validateUIState, line 1357-1431, without a lock: field after field of the
\* state is read; after the last the validated copy is written to the client
UIGetValidate ==
    /\ uiGet.pc = "listed"
    /\ LET f == ValidateOrder[uiGet.at]
           in == [uiGet.in EXCEPT ![f] = UIPointee(uiGet.ref)[f]]
       IN uiGet' = [uiGet EXCEPT
              !.in = in,
              !.at = @ + 1,
              !.pc = IF uiGet.at = Len(ValidateOrder) THEN "done" ELSE @,
              !.out = IF uiGet.at = Len(ValidateOrder)
                      THEN validateUIState(in, uiGet.ids) ELSE @]
    /\ UNCHANGED <<uiLive, uiReq, uiState, uiResp, uipc, uiPost, uiClosing>>

UIRaceIdle ==
    /\ uiPost = NoUIRequest
    /\ uiGet = NoUIRequest
    /\ uiClosing = {}

\* two sessions are registered, a client is about to post and another to get
UIRaceInit ==
    /\ uiLive = {"s1", "s2"}
    /\ uiReq \in UIRaceInputs
    /\ uiState = EmptyUIState
    /\ uiResp = EmptyUIState
    /\ uipc = "idle"
    /\ uiPost = [NoUIRequest EXCEPT !.pc = "new"]
    /\ uiGet = [NoUIRequest EXCEPT !.pc = "new"]
    /\ uiClosing = {}

(***************************************************************************)
(* The terminal proxy, plain HTTP: handleTerminalProxy                     *)
(***************************************************************************)
\* how many pieces the body of a response is put together from
MaxPieces == 4

\* strings.Index: where sub first occurs in s, 0 if nowhere
IndexOf(s, sub) ==
    LET at == {i \in 1..(Len(s) - Len(sub) + 1) : SubSeq(s, i, i + Len(sub) - 1) = sub}
    IN IF at = {} THEN 0 ELSE CHOOSE i \in at : \A j \in at : i <= j

\* a replacement of every occurrence: strings.Replace(s, old, new, -1)
RECURSIVE ReplaceAll(_, _, _)
ReplaceAll(s, old, new) ==
    LET i == IndexOf(s, old)
    IN IF i = 0 THEN s
       ELSE SubSeq(s, 1, i - 1) \o new
                \o ReplaceAll(SubSeq(s, i + Len(old), Len(s)), old, new)

\* strings.Replace(s, old, new, 1)
Replace1(s, old, new) ==
    LET i == IndexOf(s, old)
    IN IF i = 0 THEN s
       ELSE SubSeq(s, 1, i - 1) \o new \o SubSeq(s, i + Len(old), Len(s))

\* strings.SplitN(path, "/", 2)
SplitN2(path) ==
    LET i == IndexOf(path, <<Sep>>)
    IN IF i = 0 THEN <<path>>
       ELSE <<SubSeq(path, 1, i - 1), SubSeq(path, i + 1, Len(path))>>

HeadTag == <<"<", "h", "e", "a", "d", ">">>
BodyEnd == <<"<", "/", "b", "o", "d", "y", ">">>
TextHtml == <<"t", "e", "x", "t", "/", "h", "t", "m", "l">>
IndexHtml == <<"i", "n", "d", "e", "x", ".", "h", "t", "m", "l">>

\* line 1847-1871 and 1874-1901: the two scripts, each script element written
\* as one letter
ttydHeadScript == HeadTag \o <<"W">>
ttydBodyScript == <<"C">> \o BodyEnd

\* line 1955: len(parts) == 1 || parts[1] == "" || parts[1] == "index.html"
isIndexRequest(parts) ==
    Len(parts) = 1 \/ parts[2] = <<>> \/ parts[2] = IndexHtml

\* line 1942-1948: the path sent to ttyd
DirectorPath(parts) == IF Len(parts) > 1 THEN <<Sep>> \o parts[2] ELSE <<Sep>>

\* line 1957-1979: ModifyResponse on a response [ctype, body, clen]
ModifyResponse(resp) ==
    IF IndexOf(resp.ctype, TextHtml) = 0 THEN resp
    ELSE LET content == Replace1(Replace1(resp.body, HeadTag, ttydHeadScript),
                                 BodyEnd, ttydBodyScript)
         IN [resp EXCEPT !.body = content, !.clen = Len(content)]

\* the request paths behind /t/, with the id "s"
ProxyPaths ==
    { <<"s">>, <<"s", "/">>, <<"s", "/">> \o IndexHtml, <<"s", "/", "t", "o", "k", "e", "n">>,
      <<"s", "/">> \o IndexHtml \o <<"/">> }

\* the Content-Type headers of ttyd: HTML with and without a parameter, a
\* style sheet, none
ProxyTypes ==
    { TextHtml, TextHtml \o <<";", "u">>, <<"t", "e", "x", "t", "/", "c", "s", "s">>, <<>> }

\* the bodies of ttyd: put together from tags, parts of tags and text
RECURSIVE Flatten(_)
Flatten(pieces) == IF pieces = <<>> THEN <<>> ELSE pieces[1] \o Flatten(Tail(pieces))

ProxyBodies ==
    { Flatten(l) : l \in SeqUpTo({HeadTag, BodyEnd, <<"x">>, <<"<">>, <<"h", "e", "a", "d", ">">>},
                                 MaxPieces) }

\* line 1909-1953: the request has a session and is no upgrade; the proxy is
\* made and the director rewrites the path
ProxyDirector ==
    /\ pxpc = "new"
    /\ pxUp' = DirectorPath(SplitN2(pxReq.path))
    /\ pxpc' = "sent"
    /\ UNCHANGED <<pxReq, pxResp>>

\* line 1954-1982: ttyd has answered with Content-Length set to the length of
\* its body; the response goes through ModifyResponse when the request is an
\* index request, and to the client
ProxyRespond ==
    /\ pxpc = "sent"
    /\ LET resp == [ctype |-> pxReq.ctype, body |-> pxReq.body, clen |-> Len(pxReq.body)]
       IN pxResp' = IF isIndexRequest(SplitN2(pxReq.path)) THEN ModifyResponse(resp) ELSE resp
    /\ pxpc' = "done"
    /\ UNCHANGED <<pxReq, pxUp>>

ProxyIdle ==
    /\ pxReq = [path |-> <<>>, ctype |-> <<>>, body |-> <<>>]
    /\ pxUp = <<>>
    /\ pxResp = [ctype |-> <<>>, body |-> <<>>, clen |-> 0]
    /\ pxpc = "idle"

ProxyInit ==
    /\ pxReq \in [path : ProxyPaths, ctype : ProxyTypes, body : ProxyBodies]
    /\ pxUp = <<>>
    /\ pxResp = [ctype |-> <<>>, body |-> <<>>, clen |-> 0]
    /\ pxpc = "new"

(***************************************************************************)
(* The terminal proxy, WebSocket: proxyWebSocket                           *)
(***************************************************************************)
\* how many chunks the client sends after the upgrade request
MaxChunks == 2

NoConn == [broken |-> FALSE, closeWrite |-> FALSE, closed |-> FALSE]

\* line 1996-2000: net.Dial
WSDial ==
    /\ wspc = "dial"
    /\ \E ok \in BOOLEAN : wspc' = IF ok THEN "hijack" ELSE "failed"
    /\ UNCHANGED <<wsC2B, wsB2C, clientBuf, clientOut, targetOut, targetIn, clientIn,
                   clientConn, targetConn, wsPlan>>

\* line 2003-2015: the client connection is taken over; when that fails the
\* connection to ttyd is closed and the request answered 500
WSHijack ==
    /\ wspc = "hijack"
    /\ \E ok \in BOOLEAN :
         IF ok THEN wspc' = "upgrade" /\ UNCHANGED targetConn
         ELSE wspc' = "failed" /\ targetConn' = [targetConn EXCEPT !.closed = TRUE]
    /\ UNCHANGED <<wsC2B, wsB2C, clientBuf, clientOut, targetOut, targetIn, clientIn,
                   clientConn, wsPlan>>

\* line 2019-2037, 2040-2041, 2044, 2054: the upgrade request with the path
\* and Host rewritten is written to ttyd, and the two goroutines are started
WSUpgrade ==
    /\ wspc = "upgrade"
    /\ targetIn' = Append(targetIn, "upgrade")
    /\ wspc' = "wait"
    /\ wsC2B' = "flush"
    /\ wsB2C' = "copy"
    /\ UNCHANGED <<clientBuf, clientOut, targetOut, clientIn, clientConn, targetConn, wsPlan>>

\* line 2034-2038: the write fails; both connections are closed
WSUpgradeFail ==
    /\ wspc = "upgrade"
    /\ wspc' = "failed"
    /\ clientConn' = [clientConn EXCEPT !.closed = TRUE]
    /\ targetConn' = [targetConn EXCEPT !.closed = TRUE, !.broken = TRUE]
    /\ UNCHANGED <<wsC2B, wsB2C, clientBuf, clientOut, targetOut, targetIn, clientIn, wsPlan>>

\* a write to a connection: the bytes arrive unless the connection is broken
\* or breaks now
WriteTo(conn, got, bytes, breaks) ==
    IF conn.broken \/ breaks THEN <<[conn EXCEPT !.broken = TRUE], got>>
    ELSE <<conn, got \o bytes>>

\* line 2056-2059: the buffered bytes go first; the error of io.CopyN is
\* dropped
WSFlush ==
    /\ wsC2B = "flush"
    /\ \E breaks \in BOOLEAN :
         LET w == WriteTo(targetConn, targetIn, clientBuf, breaks /\ clientBuf # <<>>)
         IN targetConn' = w[1] /\ targetIn' = w[2]
    /\ clientBuf' = <<>>
    /\ wsC2B' = "copy"
    /\ UNCHANGED <<wspc, wsB2C, clientOut, targetOut, clientIn, clientConn, wsPlan>>

\* line 2060: io.Copy(targetConn, clientConn) reads a chunk and writes it;
\* it returns when the write fails
WSCopyToTarget ==
    /\ wsC2B = "copy"
    /\ clientOut.data # <<>>
    /\ clientOut' = [clientOut EXCEPT !.data = Tail(@)]
    /\ \E breaks \in BOOLEAN :
         LET w == WriteTo(targetConn, targetIn, <<Head(clientOut.data)>>, breaks)
         IN /\ targetConn' = w[1] /\ targetIn' = w[2]
            /\ wsC2B' = IF w[1].broken THEN "shut" ELSE "copy"
    /\ UNCHANGED <<wspc, wsB2C, clientBuf, targetOut, clientIn, clientConn, wsPlan>>

\* line 2060: the client has closed its side and all it wrote was read:
\* io.Copy returns at EOF
WSClientEOF ==
    /\ wsC2B = "copy"
    /\ clientOut.data = <<>> /\ clientOut.eof
    /\ wsC2B' = "shut"
    /\ UNCHANGED <<wspc, wsB2C, clientBuf, clientOut, targetOut, targetIn, clientIn,
                   clientConn, targetConn, wsPlan>>

\* line 2061-2063 and the deferred wg.Done: CloseWrite on the connection to ttyd
WSShutTarget ==
    /\ wsC2B = "shut"
    /\ targetConn' = [targetConn EXCEPT !.closeWrite = TRUE]
    /\ wsC2B' = "done"
    /\ UNCHANGED <<wspc, wsB2C, clientBuf, clientOut, targetOut, targetIn, clientIn,
                   clientConn, wsPlan>>

\* line 2047: io.Copy(clientConn, targetConn)
WSCopyToClient ==
    /\ wsB2C = "copy"
    /\ targetOut.data # <<>>
    /\ targetOut' = [targetOut EXCEPT !.data = Tail(@)]
    /\ \E breaks \in BOOLEAN :
         LET w == WriteTo(clientConn, clientIn, <<Head(targetOut.data)>>, breaks)
         IN /\ clientConn' = w[1] /\ clientIn' = w[2]
            /\ wsB2C' = IF w[1].broken THEN "shut" ELSE "copy"
    /\ UNCHANGED <<wspc, wsC2B, clientBuf, clientOut, targetIn, targetConn, wsPlan>>

\* line 2047: ttyd has closed its side: io.Copy returns at EOF
WSTargetEOF ==
    /\ wsB2C = "copy"
    /\ targetOut.data = <<>> /\ targetOut.eof
    /\ wsB2C' = "shut"
    /\ UNCHANGED <<wspc, wsC2B, clientBuf, clientOut, targetOut, targetIn, clientIn,
                   clientConn, targetConn, wsPlan>>

\* line 2048-2050 and the deferred wg.Done: CloseWrite on the client connection
WSShutClient ==
    /\ wsB2C = "shut"
    /\ clientConn' = [clientConn EXCEPT !.closeWrite = TRUE]
    /\ wsB2C' = "done"
    /\ UNCHANGED <<wspc, wsC2B, clientBuf, clientOut, targetOut, targetIn, clientIn,
                   targetConn, wsPlan>>

\* a handler that closes the connections without waiting for the goroutines
WSCloseEarly ==
    /\ wspc = "wait"
    /\ clientConn' = [clientConn EXCEPT !.closed = TRUE]
    /\ targetConn' = [targetConn EXCEPT !.closed = TRUE]
    /\ wspc' = "closed"
    /\ UNCHANGED <<wsC2B, wsB2C, clientBuf, clientOut, targetOut, targetIn, clientIn, wsPlan>>

\* line 2066-2068: wg.Wait(), then both connections are closed
WSClose ==
    /\ wspc = "wait"
    /\ wsC2B = "done" /\ wsB2C = "done"
    /\ clientConn' = [clientConn EXCEPT !.closed = TRUE]
    /\ targetConn' = [targetConn EXCEPT !.closed = TRUE]
    /\ wspc' = "closed"
    /\ UNCHANGED <<wsC2B, wsB2C, clientBuf, clientOut, targetOut, targetIn, clientIn, wsPlan>>

\* the peers: the client and ttyd end their streams when they like
WSClientEnds ==
    /\ wspc \notin {"idle", "closed", "failed"}
    /\ ~clientOut.eof
    /\ clientOut' = [clientOut EXCEPT !.eof = TRUE]
    /\ UNCHANGED <<wspc, wsC2B, wsB2C, clientBuf, targetOut, targetIn, clientIn,
                   clientConn, targetConn, wsPlan>>

WSTargetEnds ==
    /\ wspc \in {"upgrade", "wait"}
    /\ ~targetOut.eof
    /\ targetOut' = [targetOut EXCEPT !.eof = TRUE]
    /\ UNCHANGED <<wspc, wsC2B, wsB2C, clientBuf, clientOut, targetIn, clientIn,
                   clientConn, targetConn, wsPlan>>

WSIdle ==
    /\ wspc = "idle"
    /\ wsC2B = "idle"
    /\ wsB2C = "idle"
    /\ clientBuf = <<>>
    /\ clientOut = [data |-> <<>>, eof |-> FALSE]
    /\ targetOut = [data |-> <<>>, eof |-> FALSE]
    /\ targetIn = <<>>
    /\ clientIn = <<>>
    /\ clientConn = NoConn
    /\ targetConn = NoConn
    /\ wsPlan = <<>>

\* an upgrade request has come in; some of what the client wrote behind it is
\* in the reader of the server already, the rest is on its way
WSInit ==
    /\ wspc = "dial"
    /\ wsC2B = "idle"
    /\ wsB2C = "idle"
    /\ clientBuf \in {<<>>, <<"b1">>, <<"b1", "b2">>}
    /\ \E n \in 0..MaxChunks : clientOut = [data |-> [k \in 1..n |-> "c" \o ToString(k)], eof |-> FALSE]
    /\ targetOut \in {[data |-> d, eof |-> FALSE] : d \in {<<>>, <<"t1">>, <<"t1", "t2">>}}
    /\ targetIn = <<>>
    /\ clientIn = <<>>
    /\ clientConn = NoConn
    /\ targetConn = NoConn
    /\ wsPlan = clientBuf \o clientOut.data

\* the parts added last, at rest
MoreIdle == UploadIdle /\ ZipIdle /\ UIRaceIdle /\ ProxyIdle /\ WSIdle /\ cmdCap = MaxCmds

(***************************************************************************)
(* Specifications                                                          *)
(***************************************************************************)
SessFrame == UNCHANGED <<store, markedVars, scratchVars, uiVars, clipVars, keyVars, setVars, moreVars>>
MarkedFrame == UNCHANGED <<store, sessVars, scratchVars, uiVars, clipVars, keyVars, setVars, moreVars>>
ScratchFrame == UNCHANGED <<store, sessVars, markedVars, uiVars, clipVars, keyVars, setVars, moreVars>>
UIFrame == UNCHANGED <<store, sessVars, markedVars, scratchVars, clipVars, keyVars, setVars, moreVars>>
KeysFrame == UNCHANGED <<store, sessVars, markedVars, scratchVars, uiVars, clipVars, setVars, moreVars>>
ClipFrame == UNCHANGED <<store, sessVars, markedVars, scratchVars, uiVars, keyVars, setVars, moreVars>>
SetFrame == UNCHANGED <<store, sessVars, markedVars, scratchVars, uiVars, clipVars, keyVars, moreVars>>
BaseFrame ==
    UNCHANGED <<store, sessVars, markedVars, scratchVars, uiVars, clipVars, keyVars, setVars,
                cmdCap>>
UploadFrame == BaseFrame /\ UNCHANGED <<zipVars, raceVars, proxyVars, wsVars>>
ZipFrame == BaseFrame /\ UNCHANGED <<upVars, raceVars, proxyVars, wsVars>>
UIRaceFrame ==
    UNCHANGED <<store, sessVars, markedVars, scratchVars, clipVars, keyVars, setVars,
                upVars, zipVars, proxyVars, wsVars, cmdCap>>
ProxyFrame == BaseFrame /\ UNCHANGED <<upVars, zipVars, raceVars, wsVars>>
WSFrame == BaseFrame /\ UNCHANGED <<upVars, zipVars, raceVars, proxyVars>>

\* the parts of the server that a specification does not exercise
\* everything but the parts added last, at rest
BaseIdle ==
    /\ SessInit
    /\ store = "none"
    /\ MarkedInit
    /\ ScratchInit
    /\ UIIdle
    /\ ClipInit
    /\ KeysIdle
    /\ SettingsIdle

Rest == store = "none" /\ MarkedInit /\ ScratchInit /\ UIIdle /\ ClipInit /\ KeysIdle /\ SettingsIdle /\ MoreIdle

Init == SessInit /\ Rest

Next ==
    \/ \E name \in ReqNames : CreateBegin(name) /\ SessFrame
    \/ \E i \in ObjIds : CreateName(i) /\ SessFrame
    \/ \E i \in ObjIds : CreateTmux(i) /\ SessFrame
    \/ \E i \in ObjIds : CreateTtyd(i) /\ SessFrame
    \/ \E i \in ObjIds : CreateRegister(i) /\ SessFrame
    \/ \E id \in DOMAIN sessions : CloseSession(id) /\ SessFrame
    \/ \E c \in CmdIds : HandleTtydExit(c) /\ SessFrame
    \/ \E c \in CmdIds : HandleRestart(c) /\ SessFrame
    \/ \E i \in ObjIds : MonitorCheck(i) /\ SessFrame
    \/ \E i \in ObjIds : MonitorCleanup(i) /\ SessFrame
    \/ \E c \in CmdIds : TtydExit(c) /\ SessFrame
    \/ \E n \in tmux : TmuxExit(n) /\ SessFrame

Spec == Init /\ [][Next]_vars

\* The life of a session up to the shutdown: the same steps for at most
\* MaxLive calls of CreateSession, and Cleanup, which main runs on SIGINT and
\* SIGTERM.
LifeNext ==
    \/ \E name \in ReqNames : Len(objs) < MaxLive /\ CreateBegin(name) /\ SessFrame
    \/ \E i \in ObjIds : CreateName(i) /\ SessFrame
    \/ \E i \in ObjIds : CreateTmux(i) /\ SessFrame
    \/ \E i \in ObjIds : CreateTtyd(i) /\ SessFrame
    \/ \E i \in ObjIds : CreateRegister(i) /\ SessFrame
    \/ \E id \in DOMAIN sessions : CloseSession(id) /\ SessFrame
    \/ \E c \in CmdIds : HandleTtydExit(c) /\ SessFrame
    \/ \E c \in CmdIds : HandleRestart(c) /\ SessFrame
    \/ \E i \in ObjIds : MonitorCheck(i) /\ SessFrame
    \/ \E i \in ObjIds : MonitorCleanup(i) /\ SessFrame
    \/ \E c \in CmdIds : TtydExit(c) /\ SessFrame
    \/ \E n \in tmux : TmuxExit(n) /\ SessFrame
    \/ Cleanup /\ SessFrame

SpecLife == Init /\ [][LifeNext]_vars

\* Fair scheduling: a goroutine that can take its next step takes it. This
\* holds for the calls of CreateSession under way and for the two watchers of
\* a session; requests, signals and the exit of a process come when they come.
LifeFair ==
    /\ \A i \in 1..MaxLive :
           /\ WF_vars(i \in ObjIds /\ CreateName(i) /\ SessFrame)
           /\ WF_vars(i \in ObjIds /\ CreateTmux(i) /\ SessFrame)
           /\ WF_vars(i \in ObjIds /\ CreateTtyd(i) /\ SessFrame)
           /\ WF_vars(i \in ObjIds /\ CreateRegister(i) /\ SessFrame)
           /\ WF_vars(i \in ObjIds /\ MonitorCheck(i) /\ SessFrame)
           /\ WF_vars(i \in ObjIds /\ MonitorCleanup(i) /\ SessFrame)
    /\ \A c \in 1..MaxCmds :
           /\ WF_vars(c \in CmdIds /\ HandleTtydExit(c) /\ SessFrame)
           /\ WF_vars(c \in CmdIds /\ HandleRestart(c) /\ SessFrame)

SpecLive == SpecLife /\ LifeFair

\* The same steps with room for a third ttyd: a session is closed, the
\* counters are reset and the next session gets its id
ReuseInit ==
    BaseIdle /\ UploadIdle /\ ZipIdle /\ UIRaceIdle /\ ProxyIdle /\ WSIdle
        /\ cmdCap = MaxReuseCmds

SpecReuse == ReuseInit /\ [][LifeNext]_vars

\* The life of a session next to POSTs of Settings that change one colour of
\* the terminal
ThemeBodies ==
    { [f \in {"terminal.base07"} |-> "#000000"] }

ThemeNext ==
    \/ LifeNext
    \/ \E body \in ThemeBodies : SettingsPost(body) /\ SetFrame

SpecTheme == Init /\ [][ThemeNext]_vars

\* The side-channel stores. The marked list and the scratch pad have their own
\* locks and share no state, so a run explores one of them.
StoreInit ==
    /\ SessInit
    /\ store \in {"marked", "scratch"}
    /\ MarkedInit
    /\ ScratchInit
    /\ UIIdle
    /\ ClipInit
    /\ KeysIdle
    /\ SettingsIdle
    /\ MoreIdle

StoreNext ==
    \/ \E p \in ReqPaths : MarkedPost(p) /\ MarkedFrame
    \/ \E p \in ReqPaths : MarkedDelete(p) /\ MarkedFrame
    \/ MarkedClear /\ MarkedFrame
    \/ \E p \in ReqPaths \cup {<<>>} : DownloadSelect(p) /\ MarkedFrame
    \/ DownloadSingle /\ MarkedFrame
    \/ DownloadZip /\ MarkedFrame
    \/ \E i \in Subs : MarkedSubscribe(i) /\ MarkedFrame
    \/ \E i \in Subs : MarkedSendInit(i) /\ MarkedFrame
    \/ \E i \in Subs : MarkedStream(i) /\ MarkedFrame
    \/ \E i \in Subs : MarkedUnsubscribe(i) /\ MarkedFrame
    \/ \E i \in Subs : MarkedClose(i) /\ MarkedFrame
    \/ \E t \in ScratchTexts : sops < MaxScratchOps /\ ScratchPost(t) /\ ScratchFrame
    \/ sops < MaxScratchOps /\ ScratchToggle /\ ScratchFrame
    \/ sops < MaxScratchOps /\ ScratchDelete /\ ScratchFrame
    \/ \E r \in spending : ScratchNotify(r) /\ ScratchFrame
    \/ \E i \in Subs : ScratchSubscribe(i) /\ ScratchFrame
    \/ \E i \in Subs : ScratchSendInit(i) /\ ScratchFrame
    \/ \E i \in Subs : ScratchStream(i) /\ ScratchFrame
    \/ \E i \in Subs : ScratchUnsubscribe(i) /\ ScratchFrame
    \/ \E i \in Subs : ScratchClose(i) /\ ScratchFrame

SpecStore == StoreInit /\ [][StoreNext]_vars

\* The UI state validator applied to a posted state: POST, then GET.
UISpecInit ==
    /\ SessInit
    /\ store = "none"
    /\ MarkedInit
    /\ ScratchInit
    /\ UIInit
    /\ ClipInit
    /\ KeysIdle
    /\ SettingsIdle
    /\ MoreIdle

UINext ==
    \/ UIPost /\ UIFrame
    \/ UIGet /\ UIFrame

\* The publishers against subscribers that are slow or do not read at all:
\* several subscribers on one stream, and writers that come one after another.
FanInit ==
    /\ SessInit
    /\ store \in {"marked", "scratch"}
    /\ markedFiles = <<>>
    /\ markedSubs = {}
    /\ mpc = [i \in FanSubs |-> "idle"]
    /\ mch = [i \in FanSubs |-> <<>>]
    /\ mout = [i \in FanSubs |-> <<>>]
    /\ mresp = [status |-> 0, added |-> FALSE]
    /\ dl = NoDownload
    /\ scratchText = <<>>
    /\ scratchSubs = {}
    /\ spending = {}
    /\ spc = [i \in FanSubs |-> "idle"]
    /\ sch = [i \in FanSubs |-> <<>>]
    /\ sout = [i \in FanSubs |-> <<>>]
    /\ sops = 0
    /\ UIIdle
    /\ ClipInit
    /\ KeysIdle
    /\ SettingsIdle
    /\ MoreIdle

FanNext ==
    \/ MarkedClear /\ MarkedFrame
    \/ \E i \in FanSubs : MarkedSubscribe(i) /\ MarkedFrame
    \/ \E i \in FanSubs : MarkedSendInit(i) /\ MarkedFrame
    \/ \E i \in FanSubs : MarkedStream(i) /\ MarkedFrame
    \/ sops < MaxFanOps /\ spending = {} /\ ScratchDelete /\ ScratchFrame
    \/ \E r \in spending : ScratchNotify(r) /\ ScratchFrame
    \/ \E i \in FanSubs : ScratchSubscribe(i) /\ ScratchFrame
    \/ \E i \in FanSubs : ScratchSendInit(i) /\ ScratchFrame
    \/ \E i \in FanSubs : ScratchStream(i) /\ ScratchFrame

SpecFan == FanInit /\ [][FanNext]_vars

SpecUI == UISpecInit /\ [][UINext]_vars

\* The validator on groups of up to four sessions, some named twice, against
\* every set of live sessions out of three
LayoutGroups ==
    { [ID |-> id, Name |-> "n", SessionIDs |-> sids, Layout |-> l.Layout,
       ExpandedQuadrant |-> l.ExpandedQuadrant, SplitRatio |-> l.SplitRatio,
       CellMapping |-> l.CellMapping] :
        id \in UIGroupIDs,
        sids \in {<<"s1">>, <<"s1", "s2">>, <<"s1", "s2", "s3">>,
                  <<"s1", "s2", "s3", "s1">>, <<"s9">>},
        l \in UILayouts }

LayoutInit ==
    /\ uiLive \in SUBSET {"s1", "s2", "s3"}
    /\ uiReq \in { [Groups |-> gs, GroupOrder |-> <<"g1", "g2">>, ActiveGroupID |-> "g1",
                    GroupCounter |-> 5, SidebarCollapsed |-> FALSE, CustomNames |-> <<>>] :
                     gs \in SeqUpTo(LayoutGroups, MaxGroups) }
    /\ uiState = EmptyUIState
    /\ uiResp = EmptyUIState
    /\ uipc = "new"

LayoutSpecInit ==
    /\ SessInit
    /\ store = "none"
    /\ MarkedInit
    /\ ScratchInit
    /\ LayoutInit
    /\ ClipInit
    /\ KeysIdle
    /\ SettingsIdle
    /\ MoreIdle

SpecLayout == LayoutSpecInit /\ [][UINext]_vars

\* The clipboard, its writers and readers, and one polling page.
ClipNext ==
    \/ \E t \in ClipTexts : ClipPost(t) /\ ClipFrame
    \/ ClipPostFail /\ ClipFrame
    \/ ClipGet /\ ClipFrame
    \/ ClipGetVersion /\ ClipFrame
    \/ PollVersion /\ ClipFrame
    \/ PollFetch /\ ClipFrame

SpecClip == Init /\ [][ClipNext]_vars

\* The uploads: requests run side by side, no lock is taken
UploadSpecInit ==
    BaseIdle /\ UploadInit /\ ZipIdle /\ UIRaceIdle /\ ProxyIdle /\ WSIdle /\ cmdCap = MaxCmds

UploadNext ==
    \/ \E files \in UploadLists : UploadBegin(files) /\ UploadFrame
    \/ \E r \in UploadIds : UploadStat(r) /\ UploadFrame
    \/ \E r \in UploadIds : UploadCreate(r) /\ UploadFrame
    \/ \E r \in UploadIds : UploadCreateFail(r) /\ UploadFrame

SpecUpload == UploadSpecInit /\ [][UploadNext]_vars

\* A POST and a GET of the UI state while sessions close
UIRaceSpecInit ==
    /\ SessInit
    /\ store = "none"
    /\ MarkedInit
    /\ ScratchInit
    /\ ClipInit
    /\ KeysIdle
    /\ SettingsIdle
    /\ UploadIdle
    /\ ZipIdle
    /\ UIRaceInit
    /\ ProxyIdle
    /\ WSIdle
    /\ cmdCap = MaxCmds

UIRaceNext ==
    \/ \E sid \in uiLive : UICloseSession(sid) /\ UIRaceFrame
    \/ \E sid \in uiClosing : UIRemoveSession(sid) /\ UIRaceFrame
    \/ UIPostValidate /\ UIRaceFrame
    \/ UIPostStore /\ UIRaceFrame
    \/ UIPostEncode /\ UIRaceFrame
    \/ UIGetRead /\ UIRaceFrame
    \/ UIGetList /\ UIRaceFrame
    \/ UIGetValidate /\ UIRaceFrame

SpecUIRace == UIRaceSpecInit /\ [][UIRaceNext]_vars

\* A posted state is stored, and then sessions are closed one after the other,
\* each followed by its removal from the stored state
RemoveInit ==
    /\ uiLive = {"s1", "s2"}
    /\ uiReq \in {in \in UIInputs : ~in.SidebarCollapsed}
    /\ uiState = EmptyUIState
    /\ uiResp = EmptyUIState
    /\ uipc = "new"
    /\ UIRaceIdle

RemoveSpecInit ==
    /\ SessInit
    /\ store = "none"
    /\ MarkedInit
    /\ ScratchInit
    /\ ClipInit
    /\ KeysIdle
    /\ SettingsIdle
    /\ UploadIdle
    /\ ZipIdle
    /\ RemoveInit
    /\ ProxyIdle
    /\ WSIdle
    /\ cmdCap = MaxCmds

RemoveNext ==
    \/ UIPost /\ UIFrame
    \/ \E sid \in uiLive : uipc = "posted" /\ UICloseSession(sid) /\ UIRaceFrame
    \/ \E sid \in uiClosing : UIRemoveSession(sid) /\ UIRaceFrame
    \/ UIGet /\ UIFrame

SpecRemove == RemoveSpecInit /\ [][RemoveNext]_vars

\* Requests to the terminal proxy, for every path, type and body of the model
ProxySpecInit ==
    BaseIdle /\ UploadIdle /\ ZipIdle /\ UIRaceIdle /\ ProxyInit /\ WSIdle /\ cmdCap = MaxCmds

ProxyNext ==
    \/ ProxyDirector /\ ProxyFrame
    \/ ProxyRespond /\ ProxyFrame

SpecProxy == ProxySpecInit /\ [][ProxyNext]_vars

\* One WebSocket connection through the proxy, with peers that write and end
\* their streams when they like
WSSpecInit ==
    BaseIdle /\ UploadIdle /\ ZipIdle /\ UIRaceIdle /\ ProxyIdle /\ WSInit /\ cmdCap = MaxCmds

\* the steps of the handler and of its two goroutines
WSServer ==
    \/ WSDial /\ WSFrame
    \/ WSHijack /\ WSFrame
    \/ WSUpgrade /\ WSFrame
    \/ WSUpgradeFail /\ WSFrame
    \/ WSFlush /\ WSFrame
    \/ WSCopyToTarget /\ WSFrame
    \/ WSClientEOF /\ WSFrame
    \/ WSShutTarget /\ WSFrame
    \/ WSCopyToClient /\ WSFrame
    \/ WSTargetEOF /\ WSFrame
    \/ WSShutClient /\ WSFrame
    \/ WSClose /\ WSFrame

WSNext ==
    \/ WSServer
    \/ WSClientEnds /\ WSFrame
    \/ WSTargetEnds /\ WSFrame

\* the handler and its goroutines run whenever they can; the peers owe nothing
SpecWS == WSSpecInit /\ [][WSNext]_vars /\ WF_vars(WSServer)

\* The computation of the names of a zip download, for every marked list
ZipSpecInit ==
    BaseIdle /\ UploadIdle /\ ZipInit /\ UIRaceIdle /\ ProxyIdle /\ WSIdle /\ cmdCap = MaxCmds

ZipNext ==
    \/ ZipTake /\ ZipFrame
    \/ ZipPrepend /\ ZipFrame
    \/ ZipSuffix /\ ZipFrame
    \/ ZipAssign /\ ZipFrame

\* the loop runs in the handler's goroutine, which the scheduler keeps running
SpecZip == ZipSpecInit /\ [][ZipNext]_vars /\ WF_vars(ZipNext)

\* The settings
SettingsSpecInit ==
    /\ SessInit
    /\ store = "none"
    /\ MarkedInit
    /\ ScratchInit
    /\ UIIdle
    /\ ClipInit
    /\ KeysIdle
    /\ SettingsInit
    /\ MoreIdle

SettingsNext ==
    \/ \E body \in SettingsBodies : SettingsPost(body) /\ SetFrame
    \/ SettingsPostInvalid /\ SetFrame
    \/ SettingsGet /\ SetFrame

SpecSettings == SettingsSpecInit /\ [][SettingsNext]_vars

\* One key-injection request to a server with one session.
KeysSpecInit ==
    /\ OneSessionInit
    /\ store = "none"
    /\ MarkedInit
    /\ ScratchInit
    /\ UIIdle
    /\ ClipInit
    /\ KeysInit
    /\ SettingsIdle
    /\ MoreIdle

KeysNext ==
    \/ KeysHandle /\ KeysFrame
    \/ KeysExec /\ KeysFrame
    \/ KeysExecFail /\ KeysFrame
    \/ KeysDone /\ KeysFrame

SpecKeys == KeysSpecInit /\ [][KeysNext]_vars

(***************************************************************************)
(* Claims about the SessionManager (checked under Spec)                    *)
(***************************************************************************)

\* C1: in every reachable state no two sessions of the registry have the same
\* port, and every session of the registry is stored under its id and has
\* id = "session-" + its port.
C1_RegistryPortsUniqueIdFromPort ==
    \A k \in DOMAIN sessions :
        /\ objs[sessions[k]].ID = k
        /\ objs[sessions[k]].ID = "session-" \o ToString(objs[sessions[k]].Port)
        /\ \A k2 \in DOMAIN sessions :
               k # k2 => objs[sessions[k]].Port # objs[sessions[k2]].Port

\* C1 witness: two sessions are registered at once.
C1_Witness == Cardinality(DOMAIN sessions) >= 2

\* C2 (as claimed): the CreateSession call that is the first to begin after
\* the counters were reset, and that was given an empty name, gets port
\* start+1 and the name "1".
C2_FirstCreateAfterResetGetsSeed ==
    \A i \in ObjIds :
        (objs[i].first /\ objs[i].reqName = "" /\ objs[i].pc # "name")
            => (objs[i].Port = StartPort + 1 /\ objs[i].Name = "1")

\* C2, the parts of the claim that hold: a removal that leaves the registry
\* empty resets both counters in the same step, and resetCounters never runs in
\* a step that leaves a session registered.
C2_ResetExactlyWhenEmptied ==
    [][ /\ (DOMAIN sessions # {} /\ DOMAIN sessions' = {})
           => (nextPort' = StartPort /\ nextNameNum' = 0 /\ resets' = resets + 1)
        /\ (resets' # resets) => DOMAIN sessions' = {} ]_vars

\* C3 (as claimed): no two sessions that CreateSession returned over the life
\* of the daemon have the same id.
C3_IdNeverReused ==
    \A i, j \in ObjIds :
        (i # j /\ objs[i].pc = "created" /\ objs[j].pc = "created")
            => objs[i].ID # objs[j].ID

\* C3 (amended): two CreateSession calls that began between the same two resets
\* of the counters never get the same id.
C3_IdUniqueBetweenResets ==
    \A i, j \in ObjIds :
        (i # j /\ objs[i].epoch = objs[j].epoch) => objs[i].ID # objs[j].ID

\* C3 witness: two calls began after the same reset, and the id of one of
\* them was given out before that reset as well.
C3_Witness ==
    \E i, j, k \in ObjIds :
        /\ i # j
        /\ objs[i].epoch = objs[j].epoch
        /\ objs[k].epoch < objs[i].epoch
        /\ objs[k].ID = objs[i].ID
        /\ objs[i].pc = "created"

(***************************************************************************)
(* Claims about the marked list and the event streams, checked under       *)
(* SpecStore                                                               *)
(***************************************************************************)
\* a is a proper directory ancestor of b, for cleaned absolute paths
DirAncestor(a, b) ==
    /\ a # b
    /\ \/ a = <<Sep>>
       \/ HasPrefix(b, a \o <<Sep>>)

\* C4: after any sequence of marked-files operations no two entries have the
\* same path and no entry's path is a directory ancestor of another entry's
\* path, the root "/" included.
C4_MarkedAntichain ==
    \A k1, k2 \in DOMAIN markedFiles :
        k1 # k2 =>
            /\ markedFiles[k1].Path # markedFiles[k2].Path
            /\ ~DirAncestor(markedFiles[k1].Path, markedFiles[k2].Path)

\* The part of C4 that does not involve the root: the entries are pairwise
\* distinct and no entry other than "/" is an ancestor of another.
C4_AntichainBelowRoot ==
    \A k1, k2 \in DOMAIN markedFiles :
        k1 # k2 =>
            /\ markedFiles[k1].Path # markedFiles[k2].Path
            /\ markedFiles[k1].Path # <<Sep>> =>
                   ~DirAncestor(markedFiles[k1].Path, markedFiles[k2].Path)

\* the existing path filePath lies under a marked directory, or is a directory
\* that contains a marked path
Overlaps(filePath) ==
    \E k \in DOMAIN markedFiles :
        \/ markedFiles[k].IsDir /\ DirAncestor(markedFiles[k].Path, filePath)
        \/ StatIsDir(filePath) /\ DirAncestor(filePath, markedFiles[k].Path)

\* C5: a POST of a path that is already marked leaves the list unchanged with
\* one entry at that path and answers added=false; a POST of a path under a
\* marked directory, or of a directory that contains a marked path, is answered
\* 409, leaves the list unchanged and publishes nothing.
C5_DuplicateAndOverlapRejected ==
    [][\A p \in ReqPaths :
          (MarkedPost(p) /\ StatOK(Clean(p))) =>
              /\ Clean(p) \in MarkedPaths =>
                     /\ markedFiles' = markedFiles
                     /\ mresp' = [status |-> 200, added |-> FALSE]
                     /\ Cardinality({k \in DOMAIN markedFiles' :
                                        markedFiles'[k].Path = Clean(p)}) = 1
              /\ (Clean(p) \notin MarkedPaths /\ Overlaps(Clean(p))) =>
                     /\ mresp'.status = 409
                     /\ markedFiles' = markedFiles
                     /\ mch' = mch]_vars

\* The part of C5 that does not involve the root: the same, for a posted path
\* other than "/" while "/" is not marked.
C5_RejectedBelowRoot ==
    [][\A p \in ReqPaths :
          (MarkedPost(p) /\ StatOK(Clean(p))
             /\ Clean(p) # <<Sep>> /\ <<Sep>> \notin MarkedPaths) =>
              /\ Clean(p) \in MarkedPaths =>
                     /\ markedFiles' = markedFiles
                     /\ mresp' = [status |-> 200, added |-> FALSE]
              /\ (Clean(p) \notin MarkedPaths /\ Overlaps(Clean(p))) =>
                     /\ mresp'.status = 409
                     /\ markedFiles' = markedFiles
                     /\ mch' = mch]_vars

\* the events a subscriber was sent hold one init event, as the first
OneInitFirst(types) ==
    /\ types # <<>>
    /\ types[1] = "init"
    /\ \A k \in 2..Len(types) : types[k] # "init"

\* the type of a scratch event, as a string
TypeName(ev) ==
    IF ev.type = <<"i", "n", "i", "t">> THEN "init"
    ELSE IF ev.type = <<"t", "e", "x", "t">> THEN "text"
    ELSE IF ev.type = <<"t", "o", "g", "g", "l", "e">> THEN "toggle"
    ELSE IF ev.type = <<"c", "l", "e", "a", "r">> THEN "clear"
    ELSE "other"

ScratchTypes(i) == [k \in DOMAIN sout[i] |-> TypeName(sout[i][k])]

\* C9: on the scratch stream and on the marked stream a subscriber is sent
\* nothing before its init event, and once its handler is past the init write
\* it has been sent exactly one init event, the first of its events, whatever
\* mutations ran meanwhile.
C9_OneInitEventFirst ==
    \A i \in Subs :
        /\ mpc[i] \in {"idle", "subscribed"} => mout[i] = <<>>
        /\ mpc[i] \in {"stream", "removed", "closed"} => OneInitFirst(mout[i])
        /\ spc[i] \in {"idle", "subscribed"} => sout[i] = <<>>
        /\ spc[i] \in {"stream", "removed", "closed"} => OneInitFirst(ScratchTypes(i))

\* a scratch subscriber whose subscription raced with a POST: the text was
\* stored and published before the init write, so the init carries it and the
\* text event follows
C9_Witness ==
    \E i \in Subs :
        sout[i] = << InitEvent(<<"a">>),
                     [type |-> <<"t", "e", "x", "t">>, text |-> <<"a">>] >>

\* a marked subscriber that was sent its init and then an update
C9_WitnessMarked == \E i \in Subs : mout[i] = <<"init", "update">>

(***************************************************************************)
(* Claims about the UI state validator, checked under SpecUI               *)
(***************************************************************************)
\* every session id of a group or of customNames is live, every group has a
\* session, the order names returned groups only and each of them, and the
\* active group is empty or a returned group
UIStateSound(state, live) ==
    LET ids == {state.Groups[k].ID : k \in DOMAIN state.Groups} IN
    /\ \A k \in DOMAIN state.Groups :
           /\ Range(state.Groups[k].SessionIDs) \subseteq live
           /\ Len(state.Groups[k].SessionIDs) >= 1
    /\ Range(state.CustomNames) \subseteq live
    /\ Range(state.GroupOrder) = ids
    /\ state.ActiveGroupID = "" \/ state.ActiveGroupID \in ids

NoDuplicates(seq) == \A k1, k2 \in DOMAIN seq : k1 # k2 => seq[k1] # seq[k2]

\* C6: for every input state and every set of live sessions the validated
\* state names live sessions only, has no empty group, has a groupOrder that
\* lists exactly the ids of the returned groups with no id twice, and has an
\* activeGroupId that is empty or the id of a returned group.
C6_ValidatedStateSound ==
    uipc # "new" =>
        /\ UIStateSound(uiResp, uiLive)
        /\ NoDuplicates(uiResp.GroupOrder)

\* The part of C6 that holds for every input: everything but "no id twice".
C6_SoundUpToDuplicates == uipc # "new" => UIStateSound(uiResp, uiLive)

\* The other part, for the inputs whose groupOrder names no id twice.
C6_NoDuplicatesKept ==
    (uipc # "new" /\ NoDuplicates(uiReq.GroupOrder)) =>
        NoDuplicates(uiResp.GroupOrder)

\* C7: for a fixed set of live sessions, validating a validated state changes
\* no field of it: the answer to a GET that follows a POST is the state the
\* POST stored and returned.
C7_ValidateIdempotent ==
    /\ uipc # "new" => uiState = validateUIState(uiReq, uiLive)
    /\ uipc = "got" => uiResp = uiState

\* a GET after the POST of a state from which the validator pruned a dead
\* session, dropped an emptied group, reset a layout and filled in the order
C7_Witness ==
    /\ uipc = "got"
    /\ uiLive = {"s1"}
    /\ Len(uiReq.Groups) = 2
    /\ uiReq.Groups[1].SessionIDs = <<"s1", "s2">>
    /\ uiReq.Groups[1].Layout = "vertical"
    /\ uiReq.Groups[2].SessionIDs = <<"s2">>
    /\ uiReq.GroupOrder = <<"g9">>
    /\ uiReq.CustomNames = <<"s2", "s1">>
    /\ Len(uiResp.Groups) = 1
    /\ uiResp.Groups[1].Layout = "single"
    /\ uiResp.CustomNames = <<"s1">>

(***************************************************************************)
(* Claims about the clipboard, checked under SpecClip                      *)
(***************************************************************************)
\* C8: the clipboard version starts at 0 and is at every moment the number of
\* successful POSTs so far: it goes up by one with each of them, also when the
\* posted text is the stored text, and no GET of the text or of the version
\* and no failed POST changes it.
C8_VersionCountsWrites == clipVersion = clipPosts

\* the step form of C8: a step changes the version only by adding one, and
\* only when it is a successful POST
C8_VersionStep ==
    [][/\ clipVersion' >= clipVersion
       /\ (\E t \in ClipTexts : ClipPost(t)) => clipVersion' = clipVersion + 1
       /\ (ClipGet \/ ClipGetVersion \/ ClipPostFail \/ PollVersion \/ PollFetch) =>
              clipVersion' = clipVersion]_vars

\* the same text written twice, then the version read: it reads "2"
C8_Witness ==
    /\ clipPosts = 2
    /\ clipText = "x"
    /\ browserClip = "x"
    /\ knownVersion = 1
    /\ clipResp = [status |-> 200, body |-> "2"]

(***************************************************************************)
(* Claims about key injection, checked under SpecKeys                      *)
(***************************************************************************)
\* the bytes of the text steps together
RECURSIVE TextTotal(_)
TextTotal(steps) ==
    IF steps = <<>> THEN 0
    ELSE IF Len(steps) = 1
    THEN IF steps[1].Type = "text" THEN StrLen(steps[1].Value) ELSE 0
    ELSE TextTotal(SubSeq(steps, 1, Len(steps) \div 2))
             + TextTotal(SubSeq(steps, Len(steps) \div 2 + 1, Len(steps)))

\* the request breaks a rule: more than 100 steps, a key name that is empty,
\* longer than 32 bytes or not a key name, a text step above 4096 bytes, the
\* texts together above 16384 bytes, an unknown step type, an unknown
\* top-level field, or a body above 32 KiB
BreaksARule(req) ==
    LET steps == StepsOf(req) IN
    \/ Len(steps) > maxKeysPerRequest
    \/ \E k \in DOMAIN steps :
           \/ steps[k].Type = "key" /\ ~isValidKeyName(steps[k].Value)
           \/ steps[k].Type = "text" /\ StrLen(steps[k].Value) > maxTextStepLength
           \/ steps[k].Type \notin {"key", "text"}
    \/ TextTotal(steps) > maxTotalTextLength
    \/ req.unknown
    \/ BodyBytes(req) > maxKeysRequestSize

\* C10: a key-injection request that breaks a validation rule, the limit of
\* 32 KiB on the body included, has no send-keys command run for it, wherever
\* in the sequence the offending step is.
C10_InvalidRequestSendsNothing == BreaksARule(kreq) => ksent = <<>>

\* The part of C10 that holds: the same for the requests whose JSON value is
\* not followed by further bytes.
C10_NothingSentUnlessTrailing ==
    (BreaksARule(kreq) /\ kreq.trail = 0) => ksent = <<>>

\* a rejected request whose second step is the offending one
C10_RejectedAtSecondStep ==
    /\ kpc = "done"
    /\ kresp = 400
    /\ Len(kreq.Sequence) = 2
    /\ kreq.Sequence[1] = KeyStep("key", Str(<<"E", "n", "t", "e", "r">>))
    /\ kreq.Sequence[2] = KeyStep("text", Fill(maxTextStepLength + 1))
    /\ ksent = <<>>

\* the request came through the decoder to SendKeys for a registered session
Delivered(req) ==
    /\ req.idPrefix = "session-"
    /\ req.idPrefix \o ToString(req.idPort) \in DOMAIN sessions
    /\ Decode(req) = 0
    /\ StepsOf(req) # <<>>

\* every step is a key or a text, and every key name is made of characters
\* that a key name may have
WellFormed(steps) ==
    \A k \in DOMAIN steps :
        /\ steps[k].Type \in {"key", "text"}
        /\ steps[k].Type = "key" =>
               \/ StrChars(steps[k].Value) \subseteq PatternChars
               \/ StrLen(steps[k].Value) = 1 /\ StrChars(steps[k].Value) \subseteq PrintableASCII

\* at most 100 steps, key names of 1 to 32 bytes, text steps of at most 4096
\* bytes, at most 16384 bytes of text in all
WithinLimits(steps) ==
    /\ Len(steps) <= 100
    /\ \A k \in DOMAIN steps :
           /\ steps[k].Type = "key" =>
                  StrLen(steps[k].Value) >= 1 /\ StrLen(steps[k].Value) <= 32
           /\ steps[k].Type = "text" => StrLen(steps[k].Value) <= 4096
    /\ TextTotal(steps) <= 16384

\* the handler has answered without SendKeys reaching its execution loop
KeysRejected == kpc = "done" /\ ksteps = <<>> /\ kresp # 200

\* SendKeys reached its execution loop
KeysAccepted == kpc = "exec" \/ (kpc = "done" /\ (kresp = 200 \/ ksteps # <<>>))

\* C11: the limits are inclusive. A delivered request of well-formed steps is
\* accepted when it has at most 100 steps, key names of at most 32 bytes, text
\* steps of at most 4096 bytes and at most 16384 bytes of text, and is
\* rejected when it is over any of these: 32, 4096, 16384 and 100 pass, 33,
\* 4097, 16385 and 101 do not.
C11_LimitsInclusive ==
    (kpc # "new" /\ Delivered(kreq) /\ WellFormed(StepsOf(kreq))) =>
        /\ WithinLimits(StepsOf(kreq)) => KeysAccepted
        /\ ~WithinLimits(StepsOf(kreq)) => KeysRejected

\* a request of four text steps of 4096 bytes, 16384 bytes in all, ran to
\* its end
C11_Witness ==
    /\ kpc = "done"
    /\ kresp = 200
    /\ kreq.Sequence = Repeat(KeyStep("text", Fill(4096)), 4)
    /\ Len(ksent) = 4

\* the cases at and just over each limit, each reached by some request
C11_At32 ==
    KeysAccepted /\ Delivered(kreq) /\ StepsOf(kreq) = <<KeyStep("key", Run("a", 32))>>
C11_At33 ==
    KeysRejected /\ Delivered(kreq) /\ StepsOf(kreq) = <<KeyStep("key", Run("a", 33))>>
C11_At4097 ==
    KeysRejected /\ Delivered(kreq) /\ StepsOf(kreq) = <<KeyStep("text", Fill(4097))>>
C11_At16385 ==
    KeysRejected /\ Delivered(kreq) /\ Len(StepsOf(kreq)) = 5 /\ TextTotal(StepsOf(kreq)) = 16385
C11_At100 ==
    KeysAccepted /\ Delivered(kreq) /\ Len(StepsOf(kreq)) = 100 /\ Len(ksent) = 1
C11_At101 ==
    KeysRejected /\ Delivered(kreq) /\ Len(StepsOf(kreq)) = 101

\* the request is one that validation turns away: it has no step, or a step
\* that is not well formed, or it is over a limit
FailsValidation(req) ==
    \/ StepsOf(req) = <<>>
    \/ ~WellFormed(StepsOf(req))
    \/ ~WithinLimits(StepsOf(req))

\* the status the request is to be answered with when its id has the session
\* prefix: 413 for a body above 32 KiB, 400 for a body that does not decode,
\* 404 for an unknown session, 400 for a request that fails validation, and
\* otherwise 200, or 500 when a send-keys command failed
StatusAsSpecified(req, status, commandFailed) ==
    IF BodyBytes(req) > 32768 THEN status = 413
    ELSE IF req.unknown THEN status = 400
    ELSE IF req.idPrefix \o ToString(req.idPort) \notin DOMAIN sessions THEN status = 404
    ELSE IF FailsValidation(req) THEN status = 400
    ELSE IF commandFailed THEN status = 500
    ELSE status = 200

\* C12: POST /api/sessions/{id}/keys answers 404 for an unknown session, 413
\* for a body above 32 KiB, 400 for every request that validation rejects (a
\* total text above 16384 bytes and a request with neither keys nor sequence
\* included) and 500 only when a send-keys command failed.
C12_StatusCodes ==
    (kpc = "done" /\ kreq.idPrefix = "session-") =>
        StatusAsSpecified(kreq, kresp, ksteps # <<>>)

\* The part of C12 that holds: the same for the requests that have a step,
\* are not over the total text limit alone and have no bytes after the JSON
\* value.
C12_StatusCodesOtherwise ==
    (/\ kpc = "done"
     /\ kreq.idPrefix = "session-"
     /\ kreq.trail = 0
     /\ StepsOf(kreq) # <<>>
     /\ ~(Len(StepsOf(kreq)) <= 100 /\ WellFormed(StepsOf(kreq))
           /\ TextTotal(StepsOf(kreq)) > 16384)) =>
        StatusAsSpecified(kreq, kresp, ksteps # <<>>)

\* a request with neither keys nor sequence is answered 500
C12_EmptyRequest500 ==
    /\ kpc = "done"
    /\ kreq.idPrefix \o ToString(kreq.idPort) \in DOMAIN sessions
    /\ Decode(kreq) = 0
    /\ StepsOf(kreq) = <<>>
    /\ kresp = 500

\* a request over the total text limit is answered 500
C12_TotalText500 ==
    /\ kpc = "done"
    /\ Delivered(kreq)
    /\ TextTotal(StepsOf(kreq)) = 16385
    /\ kresp = 500

(***************************************************************************)
(* Claims about the publishers, checked under SpecFan                      *)
(***************************************************************************)
\* what a publisher is to leave in the channels: the message at the end of
\* every subscribed channel that has a free slot, every other channel as it was
Delivers(ch, ch2, subs, msg) ==
    \A i \in DOMAIN ch :
        ch2[i] = IF i \in subs /\ Len(ch[i]) < 10 THEN Append(ch[i], msg) ELSE ch[i]

\* C13: a publisher never blocks on a subscriber. Whatever channels are full,
\* a mutation of the marked list and the notify of a scratch mutation can take
\* their step; the step leaves a full channel as it was (the message is
\* dropped) and appends the message to every other subscriber's channel.
C13_PublisherNeverBlocks ==
    [][/\ store = "marked" => ENABLED (MarkedClear /\ MarkedFrame)
       /\ \A r \in spending : ENABLED (ScratchNotify(r) /\ ScratchFrame)
       /\ MarkedClear => Delivers(mch, mch', markedSubs, "update")
       /\ \A r \in spending :
              ScratchNotify(r) =>
                  Delivers(sch, sch', scratchSubs, r.msg) /\ spending' = spending \ {r}]_vars

\* eleven scratch mutations have completed; subscriber 1 never read and its
\* channel is full, subscriber 2 read one event and holds ten more
C13_Witness ==
    /\ sops = 11
    /\ spending = {}
    /\ spc[1] = "subscribed"
    /\ Len(sch[1]) = 10
    /\ Len(sout[2]) = 2
    /\ Len(sch[2]) = 10

\* the same on the marked stream: a full channel that is not read, next to a
\* subscriber that has read an event and holds ten more
C13_WitnessMarked ==
    /\ mpc[1] = "subscribed"
    /\ Len(mch[1]) = 10
    /\ Len(mout[2]) = 2
    /\ Len(mch[2]) = 10

(***************************************************************************)
(* Claims about the order of scratch events, checked under SpecStore       *)
(***************************************************************************)
\* the events subscriber i has been sent or has waiting in its channel, in
\* the order in which its handler gets them
Received(i) == sout[i] \o [k \in DOMAIN sch[i] |-> ParseEvent(sch[i][k])]

\* the events among them that stand for a mutation of the text
RECURSIVE Mutations(_)
Mutations(events) ==
    IF events = <<>> THEN <<>>
    ELSE IF TypeName(events[1]) \in {"text", "clear"}
    THEN <<events[1]>> \o Mutations(Tail(events))
    ELSE Mutations(Tail(events))

\* C14: a subscriber gets the text and clear events in the order in which the
\* mutations were applied to the stored text. So once every writer has
\* published and no event was dropped, the last text or clear event of a
\* subscriber carries the text that is stored.
C14_LastEventCarriesStoredText ==
    \A i \in Subs :
        (/\ store = "scratch"
         /\ spending = {}
         /\ i \in scratchSubs
         /\ Mutations(Received(i)) # <<>>) =>
            Mutations(Received(i))[Len(Mutations(Received(i)))].text = scratchText

\* two writers have both finished, "a" is stored, and the subscriber has the
\* event for "a" before the event for "b"
C14_StaleLastEvent ==
    \E i \in Subs :
        /\ spending = {}
        /\ scratchText = <<"a">>
        /\ sops = 2
        /\ Len(Mutations(Received(i))) = 2
        /\ Mutations(Received(i))[1].text = <<"a">>
        /\ Mutations(Received(i))[2].text = <<"b">>

(***************************************************************************)
(* Claims about the life of a session, checked under SpecLive (fair        *)
(* scheduling), SpecLife and Spec                                          *)
(***************************************************************************)
\* the registry holds the record of object i
Registered(i) == objs[i].ID \in DOMAIN sessions /\ sessions[objs[i].ID] = i

\* ttyd process c was started for a session and has exited while it is the
\* current ttyd of that session, the tmux session of the session is alive
\* and the session was not closed or removed
ExitedChild(c) ==
    /\ c \in CmdIds
    /\ ~cmds[c].alive
    /\ objs[cmds[c].obj].ttydCmd = c
    /\ objs[cmds[c].obj].tmuxSession \in tmux
    /\ objs[cmds[c].obj].gone = ""

\* a later ttyd was started for the session of c, or the session is no longer
\* one the claim speaks of: its tmux session is gone or its record was removed
RestartedOrOver(c) ==
    /\ c \in CmdIds
    /\ \/ \E d \in CmdIds : d > c /\ cmds[d].obj = cmds[c].obj
       \/ objs[cmds[c].obj].tmuxSession \notin tmux
       \/ objs[cmds[c].obj].gone # ""

\* C15: whenever the ttyd of a session exits, at any time after it was
\* started, while the tmux session is alive and the session is not closed, a
\* new ttyd is eventually started for the session.
C15_ExitedChildRestarted ==
    \A c \in 1..MaxCmds : ExitedChild(c) ~> RestartedOrOver(c)

\* the same for a ttyd whose watcher finds the session registered
C15_RestartedOnceRegistered ==
    \A c \in 1..MaxCmds :
        (ExitedChild(c) /\ cmds[c].h = "wait" /\ Registered(cmds[c].obj))
            ~> RestartedOrOver(c)

\* a session is registered with a ttyd that exited before the registration,
\* and the watcher of that ttyd has returned
C15_DeadChildRegistered ==
    \E c \in CmdIds :
        /\ ExitedChild(c)
        /\ cmds[c].h = "done"
        /\ Registered(cmds[c].obj)
        /\ Len(cmds) < MaxCmds

\* a ttyd is started for object i in this step
ChildStarted(i) == \E d \in DOMAIN cmds' : d \notin DOMAIN cmds /\ cmds'[d].obj = i

\* C16, the removal: when the tmux session of a registered session is gone,
\* the record of the session is eventually removed from the registry.
C16_LostSessionRemoved ==
    \A i \in 1..MaxLive :
        (i \in ObjIds /\ Registered(i) /\ objs[i].tmuxSession \notin tmux)
            ~> (i \in ObjIds /\ ~Registered(i))

\* C16, after the removal: once the record of a session was removed because
\* its tmux session was gone, no ttyd is started for the session.
C16_NoRestartAfterLoss ==
    [][\A i \in ObjIds : objs[i].gone = "lost" => ~ChildStarted(i)]_vars

\* C16, the end of the restart loop: after that removal every watcher
\* handleTtydExit of the session returns.
C16_RestartLoopEnds ==
    \A i \in 1..MaxLive :
        (i \in ObjIds /\ objs[i].gone = "lost")
            ~> (\A c \in CmdIds : cmds[c].obj = i => cmds[c].h = "done")

\* the record was removed by monitorSession, the tmux session is gone, and a
\* ttyd started afterwards by handleTtydExit is running for the session
C16_ChildOfLostSession ==
    \E i \in ObjIds :
        /\ objs[i].gone = "lost"
        /\ ~Registered(i)
        /\ objs[i].tmuxSession \notin tmux
        /\ objs[i].ttydCmd # 0
        /\ cmds[objs[i].ttydCmd].alive
        /\ cmds[objs[i].ttydCmd].h = "wait"

\* a ttyd of object i is running
ChildRunning(i) == \E c \in CmdIds : cmds[c].obj = i /\ cmds[c].alive

\* a later call of CreateSession got the port of object i again and made a
\* tmux session of the same name
MadeAnew(i) ==
    \E j \in ObjIds :
        /\ j > i
        /\ objs[j].tmuxSession = objs[i].tmuxSession
        /\ objs[j].pc \in {"ttyd", "register", "created"}

\* C17: after CloseSession(id) has returned successfully the session is not
\* in the registry, its tmux session is destroyed, and no ttyd of the session
\* is running or is started later, whatever handleTtydExit and monitorSession
\* do around the close.
C17_ClosedSessionStaysDown ==
    \A i \in ObjIds :
        objs[i].gone = "closed" =>
            /\ ~Registered(i)
            /\ objs[i].tmuxSession \in tmux => MadeAnew(i)
            /\ ~ChildRunning(i)

\* what holds of the call itself: when CloseSession(id) returns, the id is not
\* registered, the tmux session is gone and the ttyd recorded in the session
\* is dead
C17_CloseKillsRecordedChild ==
    [][\A id \in DOMAIN sessions :
          CloseSession(id) =>
              /\ id \notin DOMAIN sessions'
              /\ objs[sessions[id]].tmuxSession \notin tmux'
              /\ objs[sessions[id]].ttydCmd # 0 =>
                     ~cmds'[objs[sessions[id]].ttydCmd].alive]_vars

\* a closed session with a running ttyd that handleTtydExit started after
\* the close
C17_ChildAfterClose ==
    \E i \in ObjIds :
        /\ objs[i].gone = "closed"
        /\ ~Registered(i)
        /\ objs[i].tmuxSession \notin tmux
        /\ ChildRunning(i)

\* C18: when CreateSession fails, because the tmux session cannot be created
\* or because ttyd cannot be started, it returns an error, no session is added
\* to the registry, no watcher is left running for it, and the tmux session it
\* created has been destroyed.
C18_FailedCreateLeavesNothing ==
    [][\A i \in DOMAIN objs' :
          objs'[i].pc = "failed" =>
              /\ ~(objs'[i].ID \in DOMAIN sessions' /\ sessions'[objs'[i].ID] = i)
              /\ monitor'[i] = "none"
              /\ \A c \in DOMAIN cmds' : cmds'[c].obj # i
              /\ objs[i].pc = "failed" \/ sessions' = sessions
              /\ objs[i].pc = "ttyd" => objs[i].tmuxSession \notin tmux']_vars

\* a call failed at startTtyd after it had created its tmux session, while
\* another session is registered and watched
C18_Witness ==
    \E i \in ObjIds :
        /\ objs[i].pc = "failed"
        /\ objs[i].tmuxSession \notin tmux
        /\ \E j \in ObjIds : j # i /\ Registered(j) /\ monitor[j] = "loop"

\* a call failed while a tmux session of the name it asked for exists
C18_WitnessNameTaken ==
    \E i \in ObjIds :
        /\ objs[i].pc = "failed"
        /\ objs[i].tmuxSession \in tmux

\* C19: after Cleanup has returned the registry is empty, the ttyd and the
\* tmux session of every session that was registered have been killed, and no
\* watcher restarts a ttyd afterwards.
C19_CleanedUpStaysDown ==
    \A i \in ObjIds :
        objs[i].gone = "cleanup" =>
            /\ ~Registered(i)
            /\ objs[i].tmuxSession \in tmux => MadeAnew(i)
            /\ ~ChildRunning(i)

\* what holds of the call itself: when Cleanup returns the registry is empty,
\* no tmux session is left and the ttyd recorded in every registered session
\* is dead
C19_CleanupKillsRecorded ==
    [][Cleanup =>
          /\ sessions' = NoSessions
          /\ tmux' = {}
          /\ \A c \in RegisteredCmds : ~cmds'[c].alive]_vars

\* a second call: Cleanup can always be called, and a call that finds the
\* registry and the tmux server empty changes nothing
C19_SecondCleanupChangesNothing ==
    [][/\ ENABLED (Cleanup /\ SessFrame)
       /\ (Cleanup /\ sessions = NoSessions /\ tmux = {}) => UNCHANGED vars]_vars

\* a session that Cleanup removed has a running ttyd, started afterwards by
\* handleTtydExit
C19_ChildAfterCleanup ==
    \E i \in ObjIds :
        /\ objs[i].gone = "cleanup"
        /\ sessions = NoSessions
        /\ tmux = {}
        /\ ChildRunning(i)

(***************************************************************************)
(* Claims about the settings, checked under SpecSettings                   *)
(***************************************************************************)
\* C20: after a successful POST /api/settings, GET /api/settings returns the
\* posted value merged over the defaults: every field the body leaves empty
\* has its default and every other field has the posted value. Posting the
\* same body a second time leaves the stored settings unchanged.
C20_PostedMergedOverDefaults ==
    [][/\ (setReq'.kind = "body" /\ setResp' = 200 /\ SettingsPost(setReq'.body)) =>
              \A f \in FieldNames :
                  settings'[f] =
                      IF f \in DOMAIN setReq'.body /\ setReq'.body[f] # ""
                      THEN setReq'.body[f] ELSE DefaultSettings[f]
       /\ (setReq.kind = "body" /\ setResp = 200 /\ SettingsGet) =>
              \A f \in FieldNames :
                  setGot'[f] =
                      IF f \in DOMAIN setReq.body /\ setReq.body[f] # ""
                      THEN setReq.body[f] ELSE DefaultSettings[f]
       /\ (setReq.kind = "body" /\ setResp = 200 /\ setReq' = setReq
              /\ SettingsPost(setReq.body)) =>
              settings' = settings]_vars

\* a body with an empty field, a field with a value and an absent field was
\* posted and saved, and GET has returned the merged settings
C20_Witness ==
    /\ setResp = 200
    /\ setReq.kind = "body"
    /\ DOMAIN setReq.body = {"ui.bgPrimary", "ui.accent"}
    /\ setReq.body["ui.bgPrimary"] = ""
    /\ setReq.body["ui.accent"] = "#000000"
    /\ setGot = [DefaultSettings EXCEPT !["ui.accent"] = "#000000"]

(***************************************************************************)
(* Claims about uploads, checked under SpecUpload                          *)
(***************************************************************************)
\* request r stores a part in this step
Stores(r) ==
    /\ r \in UploadIds
    /\ upReqs[r].pc = "create"
    /\ Len(upReqs'[r].uploaded) = Len(upReqs[r].uploaded) + 1

\* the name the claim gives a part called filename in the directory dir: the
\* name itself when it is free, else "X (n)" for the smallest n >= 1 that is
\* free, with the suffix before the extension
IsClaimedName(dest, filename, dir) ==
    IF filename \notin dir THEN dest = filename
    ELSE \E n \in 1..(Cardinality(dir) + 1) :
             /\ dest = SubSeq(filename, 1, Len(filename) - Len(Ext(filename)))
                           \o <<" ", "(">> \o Digits(n) \o <<")">> \o Ext(filename)
             /\ dest \notin dir
             /\ \A j \in 1..(n - 1) : Suffixed(filename, j) \in dir

\* C21: an upload of a file named X into a directory that contains X is
\* stored as "X (n)" for the smallest n >= 1 for which "X (n)" does not
\* exist, the suffix before the extension, and leaves every existing file
\* untouched: X (1) first, X (2) for the next upload of X.
C21_UploadTakesFreeName ==
    [][\A r \in 1..MaxUploads :
          Stores(r) =>
              /\ IsClaimedName(upReqs[r].dest, Base(upReqs[r].files[upReqs[r].k]),
                               DOMAIN upFiles)
              /\ \A n \in DOMAIN upFiles : upFiles'[n] = upFiles[n]]_vars

\* the same for an upload during which no other upload wrote to the directory
C21_UndisturbedUploadTakesFreeName ==
    [][\A r \in 1..MaxUploads :
          (Stores(r) /\ upReqs[r].seen = DOMAIN upFiles) =>
              /\ IsClaimedName(upReqs[r].dest, Base(upReqs[r].files[upReqs[r].k]),
                               DOMAIN upFiles)
              /\ \A n \in DOMAIN upFiles : upFiles'[n] = upFiles[n]]_vars

\* a.t was there, two uploads of a.t are done, and a.t (1) holds only the
\* second: the first upload is lost
C21_UploadOverwritten ==
    /\ Len(upReqs) = 2
    /\ \A r \in UploadIds :
           /\ upReqs[r].pc = "done"
           /\ upReqs[r].files = << <<"a", ".", "t">> >>
           /\ upReqs[r].uploaded = << <<"a", " ", "(", "1", ")", ".", "t">> >>
    /\ <<"a", ".", "t">> \in DOMAIN upFiles
    /\ upFiles[<<"a", ".", "t">>].req = 0
    /\ <<"a", " ", "(", "2", ")", ".", "t">> \notin DOMAIN upFiles

\* one request with two parts a.t into a directory with a.t: a.t (1), a.t (2)
C21_OneThenTwo ==
    \E r \in UploadIds :
        /\ upReqs[r].pc = "done"
        /\ upReqs[r].uploaded = << <<"a", " ", "(", "1", ")", ".", "t">>,
                                   <<"a", " ", "(", "2", ")", ".", "t">> >>
        /\ upFiles[<<"a", ".", "t">>].req = 0

(***************************************************************************)
(* Claims about the marked download, checked under SpecStore               *)
(***************************************************************************)
\* C22: in a marked download of one regular file, the file is removed from
\* the marked set only when streaming it succeeded; when the file cannot be
\* served the marked set is unchanged.
C22_UnservedFileStaysMarked ==
    [][(dl.pc = "single" /\ dl'.pc = "idle") =>
          IF dl'.failed = {}
          THEN markedFiles' = Without(markedFiles, {dl.files[1].Path})
          ELSE markedFiles' = markedFiles]_vars

\* when the file is served it is removed, and nothing else is
C22_ServedFileRemoved ==
    [][(dl.pc = "single" /\ dl'.pc = "idle" /\ dl'.failed = {}) =>
          markedFiles' = Without(markedFiles, {dl.files[1].Path})]_vars

\* a single download was answered 404 and the file is no longer marked
C22_UnservedAndUnmarked ==
    /\ dl.pc = "idle"
    /\ dl.failed # {}
    /\ mresp.status = 404
    /\ dl.failed \cap MarkedPaths = {}
    /\ markedFiles # <<>>

\* the paths a download selected
Selected == {dl.files[k].Path : k \in DOMAIN dl.files}

\* C23: in a zip marked download the entries removed from the marked set are
\* exactly the selected top-level entries that were added to the zip without
\* error, removed after all entries have been streamed; entries whose
\* addition failed and entries marked meanwhile by other requests stay marked.
C23_ExactlyAddedEntriesRemoved ==
    [][(dl.pc = "zip" /\ dl'.pc = "idle") =>
          markedFiles' = Without(markedFiles, Selected \ dl'.failed)]_vars

\* the same when the additions that failed were all regular files
C23_AddedFilesRemoved ==
    [][(/\ dl.pc = "zip"
        /\ dl'.pc = "idle"
        /\ \A k \in DOMAIN dl.files : dl.files[k].Path \in dl'.failed => ~dl.files[k].IsDir) =>
          markedFiles' = Without(markedFiles, Selected \ dl'.failed)]_vars

\* a zip download is over, the addition of a directory failed, and the
\* directory is no longer marked
C23_FailedDirectoryUnmarked ==
    /\ dl.pc = "idle"
    /\ <<"/", "a">> \in dl.failed
    /\ <<"/", "a">> \notin MarkedPaths
    /\ mresp.status = 200


(***************************************************************************)
(* C24: for every list of marked entries with pairwise distinct paths the  *)
(* computation of the zip names ends, and the names it gives are pairwise  *)
(* distinct; each is the base name of its entry, or the base name behind   *)
(* the names of successive parent directories, or the base name with a     *)
(* number " (n)" (before the extension) once the parents are used up.      *)
(***************************************************************************)
\* name is the base name of the file behind one or more of its parents
IsPrefixedName(name, file) ==
    /\ Len(name) > Len(file.Name)
    /\ \/ name = file.Path
       \/ /\ Len(file.Path) > Len(name)
          /\ SubSeq(file.Path, Len(file.Path) - Len(name), Len(file.Path)) = <<Sep>> \o name

\* name is the base name of the file with a number
IsNumberedName(name, file) ==
    \E n \in 2..(Len(zfiles) + 1) : name = Suffixed(file.Name, n)

ZipNamesGiven ==
    /\ Len(zipPaths) = Len(zfiles)
    /\ \A i, j \in DOMAIN zipPaths : i # j => zipPaths[i] # zipPaths[j]
    /\ \A i \in DOMAIN zipPaths :
         \/ zipPaths[i] = zfiles[i].Name
         \/ IsPrefixedName(zipPaths[i], zfiles[i])
         \/ IsNumberedName(zipPaths[i], zfiles[i])

C24_ZipNamesDistinct ==
    /\ [](zpc = "done" => ZipNamesGiven)
    /\ <>(zpc = "done")

\* a finished computation that gave a base name and a numbered name beyond
\* (2), the first number being taken
C24_Witness ==
    /\ zpc = "done"
    /\ \E i \in DOMAIN zipPaths : zipPaths[i] = zfiles[i].Name
    /\ \E i \in DOMAIN zipPaths : zipPaths[i] = Suffixed(zfiles[i].Name, 3)

\* a finished computation that gave a name behind the name of a parent, and
\* a number to a file whose parents were used up
C24_WitnessPrefixed ==
    /\ zpc = "done"
    /\ \E i \in DOMAIN zipPaths : zipPaths[i] = <<"x", "/", "a">>
    /\ \E i \in DOMAIN zipPaths :
         zfiles[i].Path = <<"/", "x", "/", "a">> /\ IsNumberedName(zipPaths[i], zfiles[i])

\* a finished computation in which the number went before an extension
C24_WitnessExtension ==
    /\ zpc = "done"
    /\ \E i \in DOMAIN zipPaths : zipPaths[i] = <<"a", " ", "(", "2", ")", ".", "t">>


(***************************************************************************)
(* C25: a GET of the UI state returns only ids of sessions that were in    *)
(* the registry when it validated the state, also for a session closed     *)
(* after the POST; a GET does not replace the stored state; and a POST     *)
(* answers with the validated state it stored.                             *)
(***************************************************************************)
SessionIDsIn(state) ==
    UNION {Range(state.Groups[k].SessionIDs) : k \in DOMAIN state.Groups}
        \cup Range(state.CustomNames)

\* the answer of a GET names sessions of its ListSessions only
C25_GetReturnsRegistered ==
    uiGet.pc = "done" => SessionIDsIn(uiGet.out) \subseteq uiGet.ids

\* no step of a GET changes the stored state
C25_GetKeepsStored == [][uiGet' # uiGet => uiState' = uiState]_vars

\* the answer of a POST is the state it validated and stored, or what the
\* removals of closed sessions have made of that state by now
C25_PostReturnsStored ==
    uiPost.pc = "done" => (uiPost.out = uiPost.in \/ uiPost.out = uiState)

C25_UIStateContract ==
    /\ []C25_GetReturnsRegistered
    /\ C25_GetKeepsStored
    /\ []C25_PostReturnsStored

\* a GET answered after a session of the stored state closed, without it
C25_GetAfterClose ==
    /\ uiGet.pc = "done"
    /\ uiGet.ref = "posted"
    /\ "s1" \in SessionIDsIn(uiPost.in)
    /\ "s1" \notin uiGet.ids
    /\ "s1" \notin SessionIDsIn(uiGet.out)

\* a POST answered with a state that it did not validate and that was never
\* stored: the groups as validated, the rest after a removal
C25_TornAnswer ==
    /\ uiPost.pc = "done"
    /\ uiPost.out.Groups = uiPost.in.Groups
    /\ uiPost.out.GroupOrder = <<>>
    /\ uiPost.in.GroupOrder # <<>>


(***************************************************************************)
(* C26: a CreateSession with an empty name names the session with the      *)
(* decimal value of the default-name counter after incrementing it: the    *)
(* k-th name taken since the last reset is k, from "1"; a create with a    *)
(* name keeps it and leaves the counter alone.                             *)
(***************************************************************************)
\* the calls that took a default name after e resets
NamedIn(e) ==
    {i \in ObjIds : objs[i].reqName = "" /\ objs[i].pc # "name" /\ objs[i].nameEpoch = e}

C26_DefaultNamesCount ==
    /\ \A e \in 0..resets :
         /\ {objs[i].Name : i \in NamedIn(e)}
               = {ToString(k) : k \in 1..Cardinality(NamedIn(e))}
         /\ \A i, j \in NamedIn(e) : i # j => objs[i].Name # objs[j].Name
    /\ nextNameNum = Cardinality(NamedIn(resets))
    /\ \A i \in ObjIds :
         objs[i].reqName # "" => (objs[i].Name = objs[i].reqName /\ objs[i].nameEpoch = -1)

\* two default names taken after the same reset, next to a call with a name
C26_Witness ==
    /\ \E i, j \in ObjIds :
         /\ objs[i].reqName = "" /\ objs[i].Name = "1"
         /\ objs[j].reqName = "" /\ objs[j].Name = "2"
         /\ objs[i].nameEpoch = objs[j].nameEpoch
    /\ \E i \in ObjIds : objs[i].reqName # "" /\ objs[i].pc # "tmux"

\* the name "1" given twice, before and after a reset
C26_WitnessAfterReset ==
    \E i, j \in ObjIds :
        /\ objs[i].Name = "1" /\ objs[j].Name = "1"
        /\ objs[i].reqName = "" /\ objs[j].reqName = ""
        /\ objs[i].nameEpoch = 0 /\ objs[j].nameEpoch = 1


(***************************************************************************)
(* C27: for an index request whose response from ttyd is text/html, the    *)
(* body sent to the client is the body of ttyd with its first <head>       *)
(* replaced by <head> and the WebSocket script and its first </body> by    *)
(* the clipboard script and </body>, and Content-Length is the length of   *)
(* that body; every other response is passed on as it is.                  *)
(***************************************************************************)
\* the body with the first occurrence of each tag, as found in the body of
\* ttyd, replaced
Injected(body) ==
    LET h == IndexOf(body, HeadTag)
        b == IndexOf(body, BodyEnd)
        cut(from, to) == SubSeq(body, from, to)
    IN IF h = 0 /\ b = 0 THEN body
       ELSE IF b = 0 THEN cut(1, h - 1) \o ttydHeadScript \o cut(h + Len(HeadTag), Len(body))
       ELSE IF h = 0 THEN cut(1, b - 1) \o ttydBodyScript \o cut(b + Len(BodyEnd), Len(body))
       ELSE IF h < b
       THEN cut(1, h - 1) \o ttydHeadScript \o cut(h + Len(HeadTag), b - 1)
                \o ttydBodyScript \o cut(b + Len(BodyEnd), Len(body))
       ELSE cut(1, b - 1) \o ttydBodyScript \o cut(b + Len(BodyEnd), h - 1)
                \o ttydHeadScript \o cut(h + Len(HeadTag), Len(body))

FromTtyd == [ctype |-> pxReq.ctype, body |-> pxReq.body, clen |-> Len(pxReq.body)]

RewrittenIf(index) ==
    pxpc = "done" =>
        IF index /\ IndexOf(pxReq.ctype, TextHtml) # 0
        THEN /\ pxResp.body = Injected(pxReq.body)
             /\ pxResp.clen = Len(pxResp.body)
             /\ pxResp.ctype = pxReq.ctype
        ELSE pxResp = FromTtyd

\* C27 as claimed: the index requests are /t/{id}/ and /t/{id}/index.html
C27_IndexHtmlRewritten ==
    RewrittenIf(pxReq.path \in {<<"s", "/">>, <<"s", "/">> \o IndexHtml})

\* C27, amended: /t/{id}, with nothing behind the id, is an index request too
C27_IndexHtmlRewrittenAlsoBare ==
    RewrittenIf(pxReq.path \in {<<"s">>, <<"s", "/">>, <<"s", "/">> \o IndexHtml})

\* an index request answered with both scripts in a longer body
C27_Witness ==
    /\ pxpc = "done"
    /\ pxReq.path = <<"s", "/">> \o IndexHtml
    /\ IndexOf(pxResp.body, ttydHeadScript) # 0
    /\ IndexOf(pxResp.body, ttydBodyScript) > IndexOf(pxResp.body, ttydHeadScript)
    /\ pxResp.clen = Len(pxReq.body) + 2

\* a response that is passed on with its tags: not HTML, or not the index
C27_WitnessPassed ==
    /\ pxpc = "done"
    /\ IndexOf(pxReq.body, HeadTag) # 0
    /\ pxResp.body = pxReq.body
    /\ pxReq.path = <<"s", "/", "t", "o", "k", "e", "n">>

\* the HTML answer to /t/{id} with the scripts in it
C27_BareIdRewritten ==
    /\ pxpc = "done"
    /\ pxReq.path = <<"s">>
    /\ pxUp = <<Sep>>
    /\ IndexOf(pxResp.body, ttydHeadScript) # 0


(***************************************************************************)
(* C28: the steps of a key-injection request that passed validation go to  *)
(* tmux send-keys one at a time and in the order of the request, a key as  *)
(* its name and a text with the literal flag (a text without bytes gives   *)
(* no command); when a command fails SendKeys returns the error at once,   *)
(* no later step is sent, and what was sent before stays sent.             *)
(***************************************************************************)
\* the commands a run of steps stands for
RECURSIVE Commands(_)
Commands(steps) ==
    IF steps = <<>> THEN <<>>
    ELSE (IF StrLen(steps[1].Value) = 0 THEN <<>>
          ELSE <<[literal |-> steps[1].Type = "text", value |-> steps[1].Value]>>)
             \o Commands(Tail(steps))

SentInOrder ==
    /\ kpc = "exec" => ksent \o Commands(ksteps) = Commands(StepsOf(kreq))
    /\ (kpc = "done" /\ kresp = 200) => ksent = Commands(StepsOf(kreq))
    /\ (kpc = "done" /\ ksteps # <<>>) =>
          /\ kresp = 500
          /\ ksent \o Commands(ksteps) = Commands(StepsOf(kreq))
          /\ Len(ksent) < Len(Commands(StepsOf(kreq)))
    /\ kpc \notin {"exec", "done"} => ksent = <<>>

SentOneAtATime ==
    /\ ksent' # ksent =>
          /\ kpc = "exec" /\ ksteps # <<>>
          /\ ksent' = Append(ksent, [literal |-> ksteps[1].Type = "text",
                                     value |-> ksteps[1].Value])
          /\ ksteps' = Tail(ksteps)
    /\ kpc = "done" => (ksent' = ksent /\ kpc' = "done" /\ kresp' = kresp)

C28_StepsInOrderStopAtFailure == []SentInOrder /\ [][SentOneAtATime]_vars

\* a request of a key and a text whose second command failed: the first was
\* sent, the answer is 500
C28_Witness ==
    /\ kpc = "done"
    /\ kresp = 500
    /\ Len(ksent) = 1
    /\ ~ksent[1].literal
    /\ Len(ksteps) = 1
    /\ ksteps[1].Type = "text"

\* both steps of a request sent, the text with the literal flag
C28_WitnessAllSent ==
    /\ kpc = "done"
    /\ kresp = 200
    /\ Len(ksent) = 2
    /\ ksent[1].literal /\ ~ksent[2].literal


(***************************************************************************)
(* C29: once the upgrade request is written, ttyd receives the rewritten   *)
(* upgrade request, then the bytes buffered in the hijacked reader, then   *)
(* the bytes read from the client, in that order; each direction           *)
(* half-closes its destination when its source has reached EOF; and the    *)
(* two connections are closed only after both directions have ended, and   *)
(* then both are.                                                          *)
(***************************************************************************)
IsPrefix(a, b) == Len(a) <= Len(b) /\ SubSeq(b, 1, Len(a)) = a

BothEnded == wsC2B = "done" /\ wsB2C = "done"

WSOrdered ==
    /\ IsPrefix(targetIn, <<"upgrade">> \o wsPlan)
    /\ wsC2B \in {"flush", "idle"} => Len(targetIn) <= 1
    /\ (wsC2B # "idle" /\ ~targetConn.broken) =>
          targetIn \o clientBuf \o clientOut.data = <<"upgrade">> \o wsPlan

WSHalfClosed ==
    /\ targetConn.closeWrite <=> wsC2B = "done"
    /\ clientConn.closeWrite <=> wsB2C = "done"
    /\ (wsC2B \in {"shut", "done"} /\ ~targetConn.broken) =>
          (clientOut.eof /\ clientOut.data = <<>>)
    /\ (wsB2C \in {"shut", "done"} /\ ~clientConn.broken) =>
          (targetOut.eof /\ targetOut.data = <<>>)

WSClosedAfterBoth ==
    wspc # "failed" =>
        /\ (clientConn.closed \/ targetConn.closed) => BothEnded
        /\ clientConn.closed <=> targetConn.closed

C29_WebSocketRelay ==
    /\ [](WSOrdered /\ WSHalfClosed /\ WSClosedAfterBoth)
    /\ (BothEnded ~> (clientConn.closed /\ targetConn.closed))

\* a connection relayed to its end: ttyd got the upgrade request, two
\* buffered chunks and two chunks read later, the client got what ttyd
\* wrote, both sides were half-closed at EOF and both connections are closed
C29_Witness ==
    /\ wspc = "closed"
    /\ targetIn = <<"upgrade", "b1", "b2", "c1", "c2">>
    /\ clientIn = <<"t1", "t2">>
    /\ ~targetConn.broken /\ ~clientConn.broken
    /\ clientConn.closed /\ targetConn.closed

\* one direction has ended and half-closed, the other still copies
C29_WitnessHalf ==
    /\ wsB2C = "done"
    /\ wsC2B = "copy"
    /\ clientConn.closeWrite
    /\ ~clientConn.closed /\ ~targetConn.closed


(***************************************************************************)
(* C30: at every moment at most one ttyd started by the daemon is alive    *)
(* for a session: startTtyd runs for a session at its creation and after   *)
(* the previous ttyd of that session has exited only, however              *)
(* handleTtydExit, monitorSession and CloseSession interleave.             *)
(***************************************************************************)
ChildrenAlive(i) == {c \in CmdIds : cmds[c].obj = i /\ cmds[c].alive}

C30_OneChildPerSession == \A i \in ObjIds : Cardinality(ChildrenAlive(i)) <= 1

\* the same for the sessions whose id no other session had before
C30_OneChildWithoutReuse ==
    \A i \in ObjIds :
        (\A j \in ObjIds : j < i => objs[j].ID # objs[i].ID)
            => Cardinality(ChildrenAlive(i)) <= 1

\* a registered session with two ttyd alive, the second started by the
\* watcher of a ttyd of an earlier session with the same id
C30_TwoChildren ==
    \E i \in ObjIds :
        /\ Registered(i)
        /\ Cardinality(ChildrenAlive(i)) = 2
        /\ \E j \in ObjIds : j < i /\ objs[j].ID = objs[i].ID /\ objs[j].gone = "closed"


(***************************************************************************)
(* C31: validateUIState sets the layout, the split ratio and the cell      *)
(* mapping of a group to the defaults for its new number of sessions       *)
(* exactly when the number of its live sessions differs from the number    *)
(* it stored (single for 1, horizontal with ratio 0.5 for 2, grid with     *)
(* ratios 0.5, 0.5 otherwise); a group whose sessions are all live keeps   *)
(* its layout fields; the group counter becomes 0 exactly when no group    *)
(* remains.                                                                *)
(***************************************************************************)
\* how many entries of a group's session list are live
LiveCount(group, live) == Cardinality({k \in DOMAIN group.SessionIDs : group.SessionIDs[k] \in live})

\* the groups of in that keep a session, by their position in in
KeptGroups(in, live) == {k \in DOMAIN in.Groups : LiveCount(in.Groups[k], live) > 0}

\* the position in in of the j-th group of the validated state
NthKept(in, live, j) ==
    CHOOSE k \in KeptGroups(in, live) :
        Cardinality({i \in KeptGroups(in, live) : i <= k}) = j

LayoutRule(in, out, live) ==
    /\ Len(out.Groups) = Cardinality(KeptGroups(in, live))
    /\ \A j \in DOMAIN out.Groups :
         LET g == in.Groups[NthKept(in, live, j)]
             o == out.Groups[j]
             n == LiveCount(g, live)
         IN /\ o.ID = g.ID
            /\ Len(o.SessionIDs) = n
            /\ IF n # Len(g.SessionIDs)
               THEN /\ o.Layout = (IF n = 1 THEN "single"
                                   ELSE IF n = 2 THEN "horizontal" ELSE "grid")
                    /\ o.SplitRatio = (IF n = 1 THEN <<>>
                                       ELSE IF n = 2 THEN <<5>> ELSE <<5, 5>>)
                    /\ o.CellMapping = <<>>
               ELSE /\ o.Layout = g.Layout
                    /\ o.SplitRatio = g.SplitRatio
                    /\ o.CellMapping = g.CellMapping
                    /\ o.ExpandedQuadrant = g.ExpandedQuadrant
    /\ out.GroupCounter = (IF out.Groups = <<>> THEN 0 ELSE in.GroupCounter)

C31_LayoutResetOnCountChange ==
    /\ uipc = "posted" => LayoutRule(uiReq, uiResp, uiLive)
    /\ uipc = "got" => LayoutRule(uiState, uiResp, uiLive)

\* a posted state with a group of four of which three are live, now a grid,
\* next to a group that kept all its sessions and its layout
C31_Witness ==
    /\ uipc = "posted"
    /\ Len(uiResp.Groups) = 2
    /\ Len(uiReq.Groups[1].SessionIDs) = 4
    /\ uiResp.Groups[1].Layout = "grid"
    /\ uiResp.Groups[1].SplitRatio = <<5, 5>>
    /\ uiReq.Groups[2].Layout = "vertical"
    /\ uiResp.Groups[2] = uiReq.Groups[2]

\* a group of three with two live: horizontal; and no group left: counter 0
C31_WitnessHorizontal ==
    /\ uipc = "posted"
    /\ Len(uiReq.Groups) = 2
    /\ Len(uiResp.Groups) = 1
    /\ Len(uiReq.Groups[1].SessionIDs) = 3
    /\ uiResp.Groups[1].Layout = "horizontal"

C31_WitnessCounterReset ==
    /\ uipc = "posted"
    /\ uiReq.Groups # <<>>
    /\ uiResp.Groups = <<>>
    /\ uiResp.GroupCounter = 0


(***************************************************************************)
(* C32: a POST of Settings never changes the theme of a session that       *)
(* exists: the theme given to the ttyd of a session is the same at every   *)
(* start and restart of that ttyd during the life of the session.          *)
(***************************************************************************)
C32_ThemeFixedForSession ==
    \A c \in CmdIds : \A d \in CmdIds :
        cmds[c].obj = cmds[d].obj => cmds[c].theme = cmds[d].theme

\* a registered session whose ttyd was restarted, after a saved POST, with a
\* theme that differs from the theme of its first ttyd
C32_Rethemed ==
    \E id \in DOMAIN sessions : \E c \in CmdIds :
        /\ setResp = 200
        /\ cmds[c].obj = sessions[id]
        /\ ~cmds[c].alive
        /\ objs[sessions[id]].ttydCmd # c
        /\ objs[sessions[id]].ttydCmd # 0
        /\ cmds[objs[sessions[id]].ttydCmd].obj = sessions[id]
        /\ cmds[objs[sessions[id]].ttydCmd].theme # cmds[c].theme


(***************************************************************************)
(* C33: a POST of Settings whose write to the disk fails is answered with  *)
(* an error and leaves the Settings in memory as they were, so that the    *)
(* Settings in memory are those of the last POST that was saved.           *)
(***************************************************************************)
C33_FailedSaveKeepsSettings ==
    [][setResp' = 500 => settings' = settings]_vars

\* a POST answered with 500 whose body is what GET then returns, while the
\* settings in memory before it were the defaults
C33_UnsavedSettingsServed ==
    /\ setResp = 500
    /\ setReq.kind = "body"
    /\ settings = mergeWithDefaults(DecodeSettings(setReq.body))
    /\ settings # DefaultSettings
    /\ setGot = settings


(***************************************************************************)
(* C34: a subscriber channel is closed once, by its handler, and only      *)
(* after it was taken out of the subscriber set; whatever the order of a   *)
(* client's disconnect and the requests that publish, no publisher sends   *)
(* on a closed channel.                                                    *)
(***************************************************************************)
ClosedAfterRemoval(pc, subs, i) ==
    /\ pc[i] \in {"removed", "closed"} => i \notin subs
    /\ (pc'[i] = "closed" /\ pc[i] # "closed") => (pc[i] = "removed" /\ i \notin subs)
    /\ pc[i] = "closed" => pc'[i] = "closed"

NoSendWhenClosed(pc, ch, i) ==
    Len(ch'[i]) > Len(ch[i]) => (pc[i] # "closed" /\ pc'[i] # "closed")

C34_NoSendOnClosedChannel ==
    [][\A i \in Subs :
          /\ ClosedAfterRemoval(mpc, markedSubs, i)
          /\ ClosedAfterRemoval(spc, scratchSubs, i)
          /\ NoSendWhenClosed(mpc, mch, i)
          /\ NoSendWhenClosed(spc, sch, i)]_vars

\* a scratch subscriber that got the init event of the empty pad and nothing
\* since, whose channel is closed and empty, while the pad has a text whose
\* event was published: the publisher ran after the channel had left the set
C34_Witness ==
    /\ spc[1] = "closed"
    /\ sout[1] = <<InitEvent(<<>>)>>
    /\ sch[1] = <<>>
    /\ scratchText # <<>>
    /\ spending = {}
    /\ 1 \notin scratchSubs

\* the same for the marked files: a closed channel and a list that changed
C34_WitnessMarked ==
    /\ mpc[1] = "closed"
    /\ mch[1] = <<>>
    /\ mout[1] = <<"init">>
    /\ markedFiles # <<>>


(***************************************************************************)
(* C35: a request {keys:[k1,...,kn]} has the same outcome, accepted or     *)
(* rejected and the same send-keys commands in the same order, as the      *)
(* request {sequence:[{type:"key",value:k1},...]}; a request with a        *)
(* non-empty sequence and keys is validated and executed by its sequence   *)
(* alone.                                                                  *)
(***************************************************************************)
\* the request that names the keys of req as key steps of a sequence
AsSequence(req) ==
    [req EXCEPT !.Keys = <<>>,
                !.Sequence = [k \in DOMAIN req.Keys |->
                                 [Type |-> "key", Value |-> req.Keys[k]]]]

\* the commands of a run of steps when tmux runs each of them
RECURSIVE CommandsOf(_)
CommandsOf(steps) ==
    IF steps = <<>> THEN <<>>
    ELSE (IF StrLen(steps[1].Value) = 0 THEN <<>>
          ELSE << [literal |-> steps[1].Type = "text", value |-> steps[1].Value] >>)
             \o CommandsOf(Tail(steps))

\* what a request written without white space around it comes to, when tmux
\* runs every command: the status and the commands
Outcome(req) ==
    LET id == req.idPrefix \o ToString(req.idPort)
        sequence == IF Len(req.Sequence) > 0 THEN req.Sequence
                    ELSE [k \in DOMAIN req.Keys |-> [Type |-> "key", Value |-> req.Keys[k]]]
        bad == \/ id \notin DOMAIN sessions
               \/ sequence = <<>>
               \/ Len(sequence) > maxKeysPerRequest
               \/ ValidateFrom(sequence, 1, 0) # ""
    IN IF req.idPrefix # "session-" \/ Decode(req) # 0 \/ bad
       THEN [accepted |-> FALSE, commands |-> <<>>]
       ELSE [accepted |-> TRUE, commands |-> CommandsOf(sequence)]

\* the request of the state ended as the request other would
SameOutcome(other) ==
    IF ksteps = <<>>
    THEN /\ (kresp = 200) = Outcome(other).accepted
         /\ ksent = Outcome(other).commands
    ELSE /\ Outcome(other).accepted
         /\ IsPrefix(ksent, Outcome(other).commands)
         /\ Len(ksent) < Len(Outcome(other).commands)

C35_KeysAsSequence ==
    kpc = "done" =>
        /\ (kreq.Sequence = <<>> /\ kreq.Keys # <<>>) => SameOutcome(AsSequence(kreq))
        /\ kreq.Sequence # <<>> => SameOutcome([kreq EXCEPT !.Keys = <<>>])

\* a request of two keys alone that ran its commands in the order of the keys
C35_Witness ==
    /\ kpc = "done"
    /\ kresp = 200
    /\ kreq.Sequence = <<>>
    /\ Len(kreq.Keys) = 2
    /\ kreq.Keys[1] # kreq.Keys[2]
    /\ ksent = << [literal |-> FALSE, value |-> kreq.Keys[1]],
                  [literal |-> FALSE, value |-> kreq.Keys[2]] >>

\* a request of two keys alone, the second of which is not valid: rejected
C35_WitnessRejected ==
    /\ kpc = "done"
    /\ kresp = 400
    /\ kreq.Sequence = <<>>
    /\ Len(kreq.Keys) = 2
    /\ kreq.lead = 0
    /\ ~kreq.unknown
    /\ kreq.idPrefix = "session-"
    /\ ksent = <<>>

\* a request with a key that is not valid and a sequence that is: accepted
C35_WitnessBoth ==
    /\ kpc = "done"
    /\ kresp = 200
    /\ kreq.Keys = << Str(<<";">>) >>
    /\ Len(kreq.Sequence) = 2
    /\ Len(ksent) = 2

(***************************************************************************)
(* C39: no key name that isValidKeyName accepts begins with "-": a key     *)
(* step that passed the validation is never handed to tmux send-keys as    *)
(* an argument that it can read as an option.                              *)
(***************************************************************************)
BeginsWithDash(value) == value.chars # <<>> /\ value.chars[1] = "-"

C39_KeyArgumentNeverOption ==
    \A k \in DOMAIN ksent : ~ksent[k].literal => ~BeginsWithDash(ksent[k].value)

\* the request answered 200 whose key -X went to tmux send-keys
C39_OptionSent ==
    /\ kpc = "done"
    /\ kresp = 200
    /\ kreq.Keys = << Str(<<"-", "X">>) >>
    /\ ksent = << [literal |-> FALSE, value |-> Str(<<"-", "X">>)] >>


(***************************************************************************)
(* C36: whatever DELETE requests run next to the download of a single      *)
(* marked file, the removal step of the download ends without a runtime    *)
(* fault: the capacity len(markedFiles)-1 it allocates with is never       *)
(* negative.                                                               *)
(***************************************************************************)
C36_RemovalNeverFaults ==
    /\ dl.pc = "single" => DownloadCapacity >= 0
    /\ dl.pc # "panic"

\* the download that panicked in its removal step: its file was unmarked by
\* a DELETE after the download had found it, and the mutex stays locked
C36_DownloadPanicked ==
    /\ dl.pc = "panic"
    /\ markedFiles = <<>>
    /\ Len(dl.files) = 1
    /\ markedMuHeld


(***************************************************************************)
(* C37: no upload overwrites a file that exists in the target directory,   *)
(* also when two requests carry the same file name into the same directory *)
(* at the same time: every uploaded part ends as a file of its own.        *)
(***************************************************************************)
C37_EveryPartItsOwnFile ==
    \A r \in UploadIds : \A j \in DOMAIN upReqs[r].uploaded :
        /\ upReqs[r].uploaded[j] \in DOMAIN upFiles
        /\ upFiles[upReqs[r].uploaded[j]] = [req |-> r, part |-> j]

\* two requests with one part named a each, into a directory without a: both
\* are answered with the path a, and the directory has the one file a
C37_TwoPartsOneFile ==
    /\ Len(upReqs) = 2
    /\ \A r \in UploadIds :
           /\ upReqs[r].pc = "done"
           /\ upReqs[r].files = << <<"a">> >>
           /\ upReqs[r].seen = {}
           /\ upReqs[r].uploaded = << <<"a">> >>
    /\ DOMAIN upFiles = { <<"a">> }


(***************************************************************************)
(* C38: when the stored UI state is a fixed point of the validation for a  *)
(* set S of sessions that contains id, removeSessionFromUIState(id)        *)
(* leaves the stored state equal to validateUIState of the state before    *)
(* against S without id: the same groups, layouts, group order, active     *)
(* group, group counter and custom names.                                  *)
(***************************************************************************)
\* the sessions the stored state was validated against and not yet cleaned of
StoredFor == uiLive \cup uiClosing

IsFixedPoint(state, ids) == validateUIState(state, ids) = state

\* the removal of sid takes place in this step
Removes(sid) == sid \in uiClosing /\ sid \notin uiClosing'

C38_RemovalIsValidation ==
    [][\A sid \in UISessionIDs :
          (Removes(sid) /\ IsFixedPoint(uiState, StoredFor)) =>
              uiState' = validateUIState(uiState, StoredFor \ {sid})]_vars

\* the same for a stored state whose groups have ids of their own
DistinctGroupIDs(state) ==
    \A j \in DOMAIN state.Groups : \A k \in DOMAIN state.Groups :
        state.Groups[j].ID = state.Groups[k].ID => j = k

C38_RemovalIsValidationDistinctIDs ==
    [][\A sid \in UISessionIDs :
          (/\ Removes(sid)
           /\ IsFixedPoint(uiState, StoredFor)
           /\ DistinctGroupIDs(uiState)) =>
              uiState' = validateUIState(uiState, StoredFor \ {sid})]_vars

\* two groups were stored under the one id g1, s1 was closed and removed: the
\* group of s2 is left, and its id is in no group order
C38_GroupLeftOutOfOrder ==
    /\ uiLive = {"s2"}
    /\ uiClosing = {}
    /\ Len(uiReq.Groups) = 2
    /\ uiReq.Groups[1].ID = "g1"
    /\ uiReq.Groups[2].ID = "g1"
    /\ Len(uiState.Groups) = 1
    /\ uiState.Groups[1].ID = "g1"
    /\ uiState.GroupOrder = <<>>
    /\ uiState.ActiveGroupID = ""
    /\ validateUIState(uiState, uiLive).GroupOrder = <<"g1">>

====
